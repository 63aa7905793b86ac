-------------------------- MODULE MembershipsProofs --------------------------
(***************************************************************************)
(* The invariants of Memberships hold for any number of users, requests    *)
(* and invitations.  Inv is inductive; each of its parts has a lemma that  *)
(* says which other parts its preservation rests on.  The refinement of    *)
(* TripAccess rests on the same invariant.                                 *)
(***************************************************************************)
EXTENDS Memberships, TLAPS

USE NoUserAssumption, NoEmailAssumption, NoProcAssumption, NoInvAssumption,
    ProfilesAssumption, RoleInputsAssumption

\* A request record that a service has filled in is well typed.
LEMMA NewRequest ==
  ASSUME TypeOK, NEW u \in Users
  PROVE  /\ \A e \in Emails, r \in MemberRoles, i \in InvIds :
              Inviting(u, e, r, i) \in Request
         /\ \A i \in InvIds : Withdrawing(u, i) \in Request /\ Answering(u, i) \in Request
         /\ \A t \in Users \union {NoUser}, r \in MemberRoles \union {"none"} :
              Concerning(u, t, r) \in Request
  BY DEF Inviting, Withdrawing, Answering, Concerning, Request, TypeOK, Accounts

LEMMA NoRequestType == NoRequest \in Request
  BY DEF NoRequest, Request

-----------------------------------------------------------------------------
(***************************************************************************)
(* Types, and requests that carry what their next step needs.              *)
(***************************************************************************)
Typed == TypeOK /\ RequestsWellFormed

LEMMA TypedInit == Init => Typed
  BY NoRequestType DEF Init, Typed, TypeOK, NoTerms, Steps, RequestsWellFormed,
                       CreateSteps, AcceptSteps

\* A request that starts carries everything its step list asks for.
LEMMA TypedStart ==
  ASSUME Typed, NEW p \in Procs, Start(p)
  PROVE  Typed'
<1> USE DEF Typed, TypeOK, Steps, RequestsWellFormed, CreateSteps, AcceptSteps
<1>1. ASSUME NEW r \in Request, NEW step \in Steps, Begin(p, r, step),
             r.user \in Users,
             step \in CreateSteps \union AcceptSteps \union {"revoke", "decline"} =>
               r.inv \in InvIds,
             step \in CreateSteps => r.email \in Emails /\ r.role \in MemberRoles,
             step \in {"transfer_lock", "transfer_write", "update_role"} =>
               r.target \in Users \ {r.user},
             step = "update_role" => r.role \in MemberRoles
      PROVE  Typed'
  <2>1. TypeOK' BY <1>1 DEF Begin, table, locks
  <2>2. RequestsWellFormed' BY <1>1 DEF Begin, table, locks
  <2> QED BY <2>1, <2>2
<1> USE NewRequest
<1>2. CASE StartCreate(p) BY <1>1, <1>2 DEF StartCreate, Inviting
<1>3. CASE StartRevoke(p) BY <1>1, <1>3 DEF StartRevoke, Withdrawing
<1>4. CASE StartAccept(p) BY <1>1, <1>4 DEF StartAccept, Answering
<1>5. CASE StartDecline(p) BY <1>1, <1>5 DEF StartDecline, Answering
<1>6. CASE StartUpdateRole(p) BY <1>1, <1>6 DEF StartUpdateRole, Concerning
<1>7. CASE StartRemoveMember(p) BY <1>1, <1>7 DEF StartRemoveMember, Concerning
<1>8. CASE StartTransfer(p) BY <1>1, <1>8 DEF StartTransfer, Concerning
<1>9. CASE StartDelete(p) BY <1>1, <1>9 DEF StartDelete, Concerning
<1> QED BY <1>2, <1>3, <1>4, <1>5, <1>6, <1>7, <1>8, <1>9 DEF Start

LEMMA TypedInductive == Typed /\ [Next]_vars => Typed'
<1> SUFFICES ASSUME Typed, [Next]_vars PROVE Typed'
    OBVIOUS
<1> USE DEF Typed, TypeOK, Steps, CreateSteps, AcceptSteps
<1>1. ASSUME NEW p \in Procs, Finish(p)
      PROVE  /\ pc' \in [Procs -> Steps]
             /\ req' \in [Procs -> Request]
             /\ tripLock' \in Procs \union {NoProc}
             /\ invLock' \in [InvIds -> Procs \union {NoProc}]
             /\ RequestsWellFormed'
  <2>1. /\ pc' \in [Procs -> Steps]
        /\ req' \in [Procs -> Request]
        /\ tripLock' \in Procs \union {NoProc}
        /\ invLock' \in [InvIds -> Procs \union {NoProc}]
        BY <1>1, NoRequestType DEF Finish
  <2>2. pc'[p] = "idle" /\ \A q \in Procs \ {p} : pc'[q] = pc[q] /\ req'[q] = req[q]
        BY <1>1 DEF Finish
  <2>3. RequestsWellFormed' BY <2>2 DEF RequestsWellFormed
  <2> QED BY <2>1, <2>3
<1>2. ASSUME NEW p \in Procs, NEW step \in Steps, Goto(p, step), pc[p] # "idle",
             pc[p] \in CreateSteps <=> step \in CreateSteps,
             pc[p] \in AcceptSteps <=> step \in AcceptSteps,
             step \notin {"revoke", "decline", "update_role", "transfer_lock"},
             step = "transfer_write" => pc[p] = "transfer_lock"
      PROVE  pc' \in [Procs -> Steps] /\ req' \in [Procs -> Request] /\ RequestsWellFormed'
  <2>1. pc' \in [Procs -> Steps] /\ req' = req BY <1>2 DEF Goto
  <2>2. pc'[p] = step /\ \A q \in Procs \ {p} : pc'[q] = pc[q] BY <1>2 DEF Goto
  <2>3. RequestsWellFormed' BY <1>2, <2>1, <2>2 DEF RequestsWellFormed
  <2> QED BY <2>1, <2>3
<1>3. ASSUME NEW p \in Procs, Refuse(p), UNCHANGED <<account, expired>>
      PROVE  Typed'
      BY <1>1, <1>3 DEF Refuse, table
<1>4. ASSUME NEW p \in Procs, Step(p)
      PROVE  Typed'
  <2>1. CASE CreateLock(p) BY <1>2, <1>3, <2>1 DEF CreateLock, LockTrip, table
  <2>2. CASE CreateRevoke(p) BY <1>2, <2>2 DEF CreateRevoke, table
  <2>3. CASE CreateInsert(p)
    <3>1. CASE Collides(p) BY <1>3, <2>3, <3>1 DEF CreateInsert
    <3>2. CASE ~Collides(p)
      <4>1. /\ req[p].inv \in InvIds /\ req[p].email \in Emails /\ req[p].role \in MemberRoles
            BY <2>3 DEF CreateInsert, RequestsWellFormed
      <4>2. /\ rows' = rows \union {req[p].inv}
            /\ terms' = [terms EXCEPT ![req[p].inv] = [email |-> req[p].email, role |-> req[p].role]]
            /\ revoked' = revoked \union {i \in InvIds : invLock[i] = p}
            /\ Finish(p)
            /\ UNCHANGED <<owner, member, acceptedBy, declined, account, expired>>
            BY <2>3, <3>2 DEF CreateInsert
      <4>3. /\ rows' \subseteq InvIds /\ revoked' \subseteq InvIds
            /\ terms' \in [InvIds -> [email : Emails \union {NoEmail},
                                      role : MemberRoles \union {"none"}]]
            BY <4>1, <4>2
      <4> QED BY <1>1, <4>2, <4>3
    <3> QED BY <3>1, <3>2
  <2>4. CASE Revoke(p) BY <1>1, <2>4 DEF Revoke, Active
  <2>5. CASE AcceptLock(p) BY <1>2, <1>3, <2>5 DEF AcceptLock, LockTrip, table
  <2>6. CASE AcceptRead(p)
    <3>1. CASE MayAccept(p)
      <4>1. /\ pc[p] = "accept_read" /\ Goto(p, "accept_write")
            /\ invLock' = [invLock EXCEPT ![req[p].inv] = p]
            /\ UNCHANGED <<table, tripLock, account, expired>>
            BY <2>6, <3>1 DEF AcceptRead
      <4>2. pc' \in [Procs -> Steps] /\ req' \in [Procs -> Request] /\ RequestsWellFormed'
            BY <1>2, <4>1
      <4>3. invLock' \in [InvIds -> Procs \union {NoProc}]
            BY <4>1
      <4> QED BY <4>1, <4>2, <4>3 DEF table
    <3>2. CASE ~MayAccept(p)
          BY <1>3, <2>6, <3>2 DEF AcceptRead, table
    <3> QED BY <3>1, <3>2
  <2>7. CASE AcceptWrite(p)
        BY <1>1, <2>7 DEF AcceptWrite, Request, RequestsWellFormed
  <2>8. CASE Decline(p) BY <1>1, <2>8 DEF Decline, Active
  <2>9. CASE UpdateRole(p) BY <1>1, <2>9 DEF UpdateRole, Request
  <2>10. CASE RemoveMember(p) BY <1>1, <2>10 DEF RemoveMember
  <2>11. CASE TransferLock(p) BY <1>2, <1>3, <2>11 DEF TransferLock, LockTrip, table
  <2>12. CASE TransferWrite(p)
        BY <1>1, <2>12 DEF TransferWrite, Request, MemberRoles, RequestsWellFormed
  <2>13. CASE DeleteTrip(p) BY <1>1, <1>3, <2>13 DEF DeleteTrip
  <2> QED BY <1>4, <2>1, <2>2, <2>3, <2>4, <2>5, <2>6, <2>7, <2>8, <2>9, <2>10,
             <2>11, <2>12, <2>13 DEF Step
<1>5. ASSUME NEW u \in Users, SignIn(u) PROVE Typed'
      BY <1>5 DEF SignIn, table, locks, RequestsWellFormed
<1>6. ASSUME NEW i \in InvIds, Expire(i) PROVE Typed'
      BY <1>6 DEF Expire, table, locks, RequestsWellFormed
<1>7. ASSUME NEW p \in Procs, Abort(p) PROVE Typed'
      BY <1>3, <1>7 DEF Abort
<1>8. CASE UNCHANGED vars BY <1>8 DEF vars, table, locks, RequestsWellFormed
<1> QED BY TypedStart, <1>4, <1>5, <1>6, <1>7, <1>8 DEF Next

\* Every table column, lock and request keeps its type.
THEOREM TypeCorrect == Spec => []TypeOK
<1>1. Typed => TypeOK BY DEF Typed
<1> QED BY <1>1, TypedInit, TypedInductive, PTL DEF Spec

-----------------------------------------------------------------------------
(***************************************************************************)
(* Row locks.                                                              *)
(***************************************************************************)

\* Starting a request only touches that request, which was idle.
LEMMA StartFrame ==
  ASSUME NEW p \in Procs, Start(p), Typed
  PROVE  /\ UNCHANGED <<table, account, expired, locks>>
         /\ pc[p] = "idle" /\ pc'[p] \notin LockedSteps \union {"idle"}
         /\ \A q \in Procs \ {p} : pc'[q] = pc[q] /\ req'[q] = req[q]
<1> USE DEF Begin, Typed, TypeOK, LockedSteps
<1>1. CASE StartCreate(p) BY <1>1 DEF StartCreate
<1>2. CASE StartRevoke(p) BY <1>2 DEF StartRevoke
<1>3. CASE StartAccept(p) BY <1>3 DEF StartAccept
<1>4. CASE StartDecline(p) BY <1>4 DEF StartDecline
<1>5. CASE StartUpdateRole(p) BY <1>5 DEF StartUpdateRole
<1>6. CASE StartRemoveMember(p) BY <1>6 DEF StartRemoveMember
<1>7. CASE StartTransfer(p) BY <1>7 DEF StartTransfer
<1>8. CASE StartDelete(p) BY <1>8 DEF StartDelete
<1> QED BY <1>1, <1>2, <1>3, <1>4, <1>5, <1>6, <1>7, <1>8 DEF Start

\* Finishing gives back exactly the request's own locks.
LEMMA FinishFrame ==
  ASSUME NEW p \in Procs, Finish(p), Typed
  PROVE  /\ pc'[p] = "idle"
         /\ \A q \in Procs \ {p} : pc'[q] = pc[q] /\ req'[q] = req[q]
         /\ tripLock' = IF tripLock = p THEN NoProc ELSE tripLock
         /\ \A i \in InvIds : invLock'[i] = IF invLock[i] = p THEN NoProc ELSE invLock[i]
  BY DEF Finish, Typed, TypeOK

LEMMA LocksInit == Init => LockDiscipline
  BY DEF Init, LockDiscipline, LockedSteps

LEMMA LocksInductive == Typed /\ LockDiscipline /\ [Next]_vars => LockDiscipline'
<1> SUFFICES ASSUME Typed, LockDiscipline, [Next]_vars PROVE LockDiscipline'
    OBVIOUS
<1> USE DEF LockDiscipline, LockedSteps
<1>1. ASSUME NEW p \in Procs, Start(p) PROVE LockDiscipline'
      BY <1>1, StartFrame DEF locks, Typed, TypeOK
<1>2. ASSUME NEW p \in Procs, Finish(p) PROVE LockDiscipline'
      BY <1>2, FinishFrame DEF Typed, TypeOK
<1>3. ASSUME NEW p \in Procs, Step(p) PROVE LockDiscipline'
  <2> USE DEF Refuse, Goto, LockTrip, Typed, TypeOK
  <2>1. CASE CreateLock(p) BY <1>2, <2>1 DEF CreateLock
  <2>2. CASE CreateRevoke(p) BY <2>2 DEF CreateRevoke
  <2>3. CASE CreateInsert(p) BY <1>2, <2>3 DEF CreateInsert
  <2>4. CASE Revoke(p) BY <1>2, <2>4 DEF Revoke
  <2>5. CASE AcceptLock(p) BY <1>2, <2>5 DEF AcceptLock
  <2>6. CASE AcceptRead(p) BY <1>2, <2>6 DEF AcceptRead
  <2>7. CASE AcceptWrite(p) BY <1>2, <2>7 DEF AcceptWrite
  <2>8. CASE Decline(p) BY <1>2, <2>8 DEF Decline
  <2>9. CASE UpdateRole(p) BY <1>2, <2>9 DEF UpdateRole
  <2>10. CASE RemoveMember(p) BY <1>2, <2>10 DEF RemoveMember
  <2>11. CASE TransferLock(p) BY <1>2, <2>11 DEF TransferLock
  <2>12. CASE TransferWrite(p) BY <1>2, <2>12 DEF TransferWrite
  <2>13. CASE DeleteTrip(p) BY <1>2, <2>13 DEF DeleteTrip
  <2> QED BY <1>3, <2>1, <2>2, <2>3, <2>4, <2>5, <2>6, <2>7, <2>8, <2>9, <2>10,
             <2>11, <2>12, <2>13 DEF Step
<1>4. ASSUME NEW p \in Procs, Abort(p) PROVE LockDiscipline'
      BY <1>2, <1>4 DEF Abort, Refuse
<1>5. ASSUME NEW u \in Users, SignIn(u) PROVE LockDiscipline'
      BY <1>5 DEF SignIn, locks
<1>6. ASSUME NEW i \in InvIds, Expire(i) PROVE LockDiscipline'
      BY <1>6 DEF Expire, locks
<1>7. CASE UNCHANGED vars BY <1>7 DEF vars, locks
<1> QED BY <1>1, <1>3, <1>4, <1>5, <1>6, <1>7 DEF Next

-----------------------------------------------------------------------------
(***************************************************************************)
(* The tables.                                                             *)
(***************************************************************************)
LEMMA IdsInit == Init => IdsAreFresh
  BY DEF Init, IdsAreFresh, CreateSteps

\* A request that ends keeps the ids of the others fresh, if what it writes is about
\* invitations with terms.
LEMMA EndKeepsIdsFresh ==
  ASSUME Typed, IdsAreFresh, NEW p \in Procs, Finish(p), terms' = terms,
         \A i \in InvIds : terms[i] = NoTerms =>
           i \notin rows' \union revoked' \union declined' /\ acceptedBy'[i] = NoUser
  PROVE  IdsAreFresh'
<1>. USE DEF IdsAreFresh, CreateSteps
<1>1. \A q \in Procs : pc'[q] \in CreateSteps =>
        q # p /\ pc[q] \in CreateSteps /\ req'[q] = req[q]
  BY FinishFrame
<1>. QED BY <1>1

LEMMA IdsInductive ==
  Typed /\ IdsAreFresh /\ StillDecided /\ [Next]_vars => IdsAreFresh'
<1> SUFFICES ASSUME Typed, IdsAreFresh, StillDecided, [Next]_vars PROVE IdsAreFresh'
    OBVIOUS
<1> USE DEF IdsAreFresh, CreateSteps
<1>1. ASSUME NEW p \in Procs, Start(p) PROVE IdsAreFresh'
  <2>1. pc'[p] \in CreateSteps =>
          /\ terms[req'[p].inv] = NoTerms
          /\ \A q \in Procs : pc[q] \in CreateSteps => req[q].inv # req'[p].inv
    <3> USE DEF Begin, Typed, TypeOK
    <3>1. CASE StartCreate(p) BY <3>1 DEF StartCreate, FreshId, Inviting
    <3>2. CASE StartRevoke(p) BY <3>2 DEF StartRevoke
    <3>3. CASE StartAccept(p) BY <3>3 DEF StartAccept
    <3>4. CASE StartDecline(p) BY <3>4 DEF StartDecline
    <3>5. CASE StartUpdateRole(p) BY <3>5 DEF StartUpdateRole
    <3>6. CASE StartRemoveMember(p) BY <3>6 DEF StartRemoveMember
    <3>7. CASE StartTransfer(p) BY <3>7 DEF StartTransfer
    <3>8. CASE StartDelete(p) BY <3>8 DEF StartDelete
    <3> QED BY <1>1, <3>1, <3>2, <3>3, <3>4, <3>5, <3>6, <3>7, <3>8 DEF Start
  <2> QED BY <1>1, <2>1, StartFrame DEF table
<1>2. ASSUME NEW p \in Procs, Finish(p), UNCHANGED <<rows, terms, acceptedBy, revoked, declined>>
      PROVE  IdsAreFresh'
      BY <1>2, FinishFrame
<1>3. ASSUME NEW p \in Procs, Step(p) PROVE IdsAreFresh'
  <2> USE DEF Refuse, Goto, table, Typed, TypeOK
  <2>1. CASE CreateLock(p) BY <1>2, <2>1 DEF CreateLock
  <2>2. CASE CreateRevoke(p) BY <2>2 DEF CreateRevoke
  <2>3. CASE CreateInsert(p)
    <3>1. CASE Collides(p) BY <1>2, <2>3, <3>1 DEF CreateInsert
    <3>2. CASE ~Collides(p)
      <4>1. /\ terms'[req[p].inv] # NoTerms
            /\ rows' = rows \union {req[p].inv}
            /\ \A i \in InvIds \ {req[p].inv} : terms'[i] = terms[i]
            BY <2>3, <3>2 DEF CreateInsert, RequestsWellFormed, NoTerms
      <4>2. \A i \in InvIds : i \in revoked' \ revoked => i \in rows
            BY <2>3, <3>2 DEF CreateInsert, StillDecided, DecidedUnderLock, ActiveFor, Active
      <4>3. \A i \in InvIds : terms'[i] = NoTerms =>
              i \notin rows' \union revoked' \union declined' /\ acceptedBy'[i] = NoUser
            BY <2>3, <3>2, <4>1, <4>2 DEF CreateInsert
      <4> QED BY <2>3, <3>2, <4>1, <4>3, FinishFrame DEF CreateInsert, RequestsWellFormed
    <3> QED BY <3>1, <3>2
  <2>4. CASE Revoke(p) BY <2>4, EndKeepsIdsFresh DEF Revoke, Active
  <2>5. CASE AcceptLock(p) BY <1>2, <2>5 DEF AcceptLock
  <2>6. CASE AcceptRead(p) BY <1>2, <2>6 DEF AcceptRead
  <2>7. CASE AcceptWrite(p)
    <3>1. req[p].inv \in rows
          BY <2>7 DEF AcceptWrite, StillDecided, DecidedUnderLock, Active
    <3>2. \A i \in InvIds : acceptedBy'[i] # acceptedBy[i] => i = req[p].inv
          BY <2>7 DEF AcceptWrite
    <3>3. /\ Finish(p) /\ terms' = terms
          /\ rows' = rows /\ revoked' = revoked /\ declined' = declined
          BY <2>7 DEF AcceptWrite
    <3>4. \A i \in InvIds : terms[i] = NoTerms =>
            i \notin rows' \union revoked' \union declined' /\ acceptedBy'[i] = NoUser
          BY <3>1, <3>2, <3>3
    <3> QED BY <3>3, <3>4, EndKeepsIdsFresh
  <2>8. CASE Decline(p) BY <2>8, EndKeepsIdsFresh DEF Decline, Active
  <2>9. CASE UpdateRole(p) BY <1>2, <2>9 DEF UpdateRole
  <2>10. CASE RemoveMember(p) BY <1>2, <2>10 DEF RemoveMember
  <2>11. CASE TransferLock(p) BY <1>2, <2>11 DEF TransferLock
  <2>12. CASE TransferWrite(p) BY <1>2, <2>12 DEF TransferWrite
  <2>13. CASE DeleteTrip(p)
    <3>1. CASE owner = req[p].user
          BY <2>13, <3>1, EndKeepsIdsFresh DEF DeleteTrip
    <3>2. CASE owner # req[p].user
          BY <1>2, <2>13, <3>2 DEF DeleteTrip
    <3> QED BY <3>1, <3>2
  <2> QED BY <1>3, <2>1, <2>2, <2>3, <2>4, <2>5, <2>6, <2>7, <2>8, <2>9, <2>10,
             <2>11, <2>12, <2>13 DEF Step
<1>4. ASSUME NEW p \in Procs, Abort(p) PROVE IdsAreFresh'
      BY <1>2, <1>4 DEF Abort, Refuse, table
<1>5. ASSUME NEW u \in Users, SignIn(u) PROVE IdsAreFresh'
      BY <1>5 DEF SignIn, table
<1>6. ASSUME NEW i \in InvIds, Expire(i) PROVE IdsAreFresh'
      BY <1>6 DEF Expire, table
<1>7. CASE UNCHANGED vars BY <1>7 DEF vars, table
<1> QED BY <1>1, <1>3, <1>4, <1>5, <1>6, <1>7 DEF Next

LEMMA DecidedInit == Init => StillDecided
  BY DEF Init, StillDecided, DecidedUnderLock

\* A request keeps what it found as long as its locks, its data and the rows
\* behind them stay as they are, and a request without locks found nothing.
LEMMA DecidedKept ==
  ASSUME NEW p \in Procs, DecidedUnderLock(p), pc'[p] = pc[p], req'[p] = req[p],
         owner' = owner, terms' = terms,
         \A i \in InvIds : (invLock[i] = p <=> invLock'[i] = p) /\ (Active(i) <=> Active(i)'),
         Typed
  PROVE  DecidedUnderLock(p)'
<1>1. \A e : ActiveFor(e)' = ActiveFor(e) BY DEF ActiveFor
<1>2. pc[p] = "accept_write" => req[p].inv \in InvIds
      BY DEF Typed, RequestsWellFormed, AcceptSteps
<1> QED BY <1>1, <1>2 DEF DecidedUnderLock

LEMMA DecidedUnlocked ==
  ASSUME NEW p \in Procs, pc'[p] \notin LockedSteps
  PROVE  DecidedUnderLock(p)'
  BY DEF DecidedUnderLock, LockedSteps

LEMMA ActiveKept ==
  ASSUME UNCHANGED table
  PROVE  \A i \in InvIds : Active(i) <=> Active(i)'
  BY DEF Active, table

\* The locks a request holds keep the rows it read as they were: whatever
\* another request does meanwhile either needs the trip's lock or leaves the
\* locked invitations alone.
LEMMA DecidedInductive ==
  Typed /\ IdsAreFresh /\ LockDiscipline /\ StillDecided /\ [Next]_vars => StillDecided'
<1> SUFFICES ASSUME Typed, IdsAreFresh, LockDiscipline, StillDecided, [Next]_vars
             PROVE  StillDecided'
    OBVIOUS
<1>1. ASSUME NEW p \in Procs, Start(p) PROVE StillDecided'
  <2>1. DecidedUnderLock(p)' BY <1>1, StartFrame, DecidedUnlocked
  <2>2. ASSUME NEW q \in Procs \ {p} PROVE DecidedUnderLock(q)'
        BY <1>1, StartFrame, ActiveKept, DecidedKept DEF StillDecided, table, locks
  <2> QED BY <2>1, <2>2 DEF StillDecided
<1>2. ASSUME NEW p \in Procs, Finish(p),
             \A q \in Procs \ {p} : pc[q] \in LockedSteps => owner' = owner /\ terms' = terms,
             \A q \in Procs \ {p} : pc[q] \in LockedSteps =>
               \A i \in InvIds : Active(i) <=> Active(i)'
      PROVE  StillDecided'
  <2>1. DecidedUnderLock(p)' BY <1>2, FinishFrame, DecidedUnlocked DEF LockedSteps
  <2>2. ASSUME NEW q \in Procs \ {p}, pc[q] \in LockedSteps PROVE DecidedUnderLock(q)'
        BY <1>2, <2>2, FinishFrame, DecidedKept DEF StillDecided
  <2>3. ASSUME NEW q \in Procs \ {p}, pc[q] \notin LockedSteps PROVE DecidedUnderLock(q)'
        BY <1>2, <2>3, FinishFrame, DecidedUnlocked
  <2> QED BY <2>1, <2>2, <2>3 DEF StillDecided
<1>3. ASSUME NEW p \in Procs, Refuse(p) PROVE StillDecided'
      BY <1>2, <1>3, ActiveKept DEF Refuse, table
\* With the trip's lock free or its own, a request is the only one that counts.
<1>4. ASSUME NEW p \in Procs, Finish(p), tripLock \in {p, NoProc} PROVE StillDecided'
      BY <1>2, <1>4 DEF LockDiscipline
<1>5. ASSUME NEW p \in Procs, pc[p] # "idle", tripLock' = p, DecidedUnderLock(p)',
             \A q \in Procs \ {p} : pc'[q] = pc[q] /\ pc[q] \notin LockedSteps
      PROVE  StillDecided'
  <2>1. ASSUME NEW q \in Procs \ {p} PROVE DecidedUnderLock(q)'
        BY <1>5, <2>1, DecidedUnlocked
  <2> QED BY <1>5, <2>1 DEF StillDecided
<1>6. ASSUME NEW p \in Procs, Step(p) PROVE StillDecided'
  <2> USE DEF Goto, LockTrip, Typed, TypeOK, LockDiscipline, LockedSteps
  <2>1. CASE CreateLock(p)
        BY <1>3, <1>5, <2>1 DEF CreateLock, DecidedUnderLock, table
  <2>2. CASE CreateRevoke(p)
    <3>1. \A e : ActiveFor(e)' = ActiveFor(e)
          BY <2>2, ActiveKept DEF CreateRevoke, ActiveFor, table
    <3>2. \A i \in InvIds : invLock'[i] = p <=> i \in ActiveFor(req[p].email)
          BY <2>2, NoProcAssumption DEF CreateRevoke
    <3> QED BY <1>5, <2>2, <3>1, <3>2
            DEF CreateRevoke, DecidedUnderLock, StillDecided, table
  <2>3. CASE CreateInsert(p) BY <1>3, <1>4, <2>3 DEF CreateInsert
  <2>4. CASE Revoke(p)
        BY <2>4, FinishFrame DEF Revoke, StillDecided, DecidedUnderLock, Unlocked, Active, ActiveFor
  <2>5. CASE AcceptLock(p)
        BY <1>3, <1>5, <2>5 DEF AcceptLock, DecidedUnderLock, table
  <2>6. CASE AcceptRead(p)
    <3>1. CASE ~MayAccept(p) BY <1>3, <2>6, <3>1 DEF AcceptRead
    <3>2. CASE MayAccept(p)
      <4>1. req[p].inv \in InvIds
            BY <2>6 DEF AcceptRead, RequestsWellFormed, AcceptSteps
      <4>2. \A i \in InvIds : invLock'[i] = p <=> i = req[p].inv
            BY <2>6, <3>2, <4>1 DEF AcceptRead
      <4>3. Active(req[p].inv)'
            BY <2>6, <3>2, <4>1, ActiveKept DEF AcceptRead, MayAccept
      <4> QED BY <1>5, <2>6, <3>2, <4>2, <4>3
              DEF AcceptRead, DecidedUnderLock, MayAccept, table
    <3> QED BY <3>1, <3>2
  <2>7. CASE AcceptWrite(p) BY <1>4, <2>7 DEF AcceptWrite
  <2>8. CASE Decline(p)
        BY <2>8, FinishFrame DEF Decline, StillDecided, DecidedUnderLock, Unlocked, Active, ActiveFor
  <2>9. CASE UpdateRole(p) BY <1>2, <2>9 DEF UpdateRole, Active
  <2>10. CASE RemoveMember(p) BY <1>2, <2>10 DEF RemoveMember, Active
  <2>11. CASE TransferLock(p)
        BY <1>3, <1>5, <2>11 DEF TransferLock, DecidedUnderLock, table
  <2>12. CASE TransferWrite(p) BY <1>4, <2>12 DEF TransferWrite
  <2>13. CASE DeleteTrip(p) BY <1>3, <1>4, <2>13 DEF DeleteTrip
  <2> QED BY <1>6, <2>1, <2>2, <2>3, <2>4, <2>5, <2>6, <2>7, <2>8, <2>9, <2>10,
             <2>11, <2>12, <2>13 DEF Step
<1>7. ASSUME NEW p \in Procs, Abort(p) PROVE StillDecided'
      BY <1>3, <1>7 DEF Abort
<1>8. ASSUME UNCHANGED <<table, locks, pc, req>> PROVE StillDecided'
      BY <1>8, ActiveKept, DecidedKept DEF StillDecided, table, locks
<1> QED BY <1>1, <1>6, <1>7, <1>8 DEF Next, SignIn, Expire, vars

-----------------------------------------------------------------------------
(***************************************************************************)
(* What the parts above are for.                                           *)
(***************************************************************************)
LEMMA OwnerInductive ==
  /\ Typed /\ StillDecided /\ OwnerHasNoMemberRow /\ [Next]_vars
  => OwnerHasNoMemberRow'
<1> SUFFICES ASSUME Typed, StillDecided, OwnerHasNoMemberRow, [Next]_vars
             PROVE  OwnerHasNoMemberRow'
    OBVIOUS
<1> USE DEF OwnerHasNoMemberRow, Typed, TypeOK
<1>1. ASSUME UNCHANGED <<owner, member>> PROVE OwnerHasNoMemberRow'
      BY <1>1
<1>2. ASSUME NEW p \in Procs, Step(p) PROVE OwnerHasNoMemberRow'
  <2> USE DEF Refuse, table
  <2>1. CASE CreateLock(p) BY <1>1, <2>1 DEF CreateLock
  <2>2. CASE CreateRevoke(p) BY <1>1, <2>2 DEF CreateRevoke
  <2>3. CASE CreateInsert(p) BY <1>1, <2>3 DEF CreateInsert
  <2>4. CASE Revoke(p) BY <1>1, <2>4 DEF Revoke
  <2>5. CASE AcceptLock(p) BY <1>1, <2>5 DEF AcceptLock
  <2>6. CASE AcceptRead(p) BY <1>1, <2>6 DEF AcceptRead
  <2>7. CASE AcceptWrite(p) BY <2>7 DEF AcceptWrite, StillDecided, DecidedUnderLock
  <2>8. CASE Decline(p) BY <1>1, <2>8 DEF Decline
  <2>9. CASE UpdateRole(p) BY <2>9 DEF UpdateRole
  <2>10. CASE RemoveMember(p) BY <2>10 DEF RemoveMember
  <2>11. CASE TransferLock(p) BY <1>1, <2>11 DEF TransferLock
  <2>12. CASE TransferWrite(p) BY <2>12 DEF TransferWrite, RequestsWellFormed
  <2>13. CASE DeleteTrip(p) BY <1>1, <2>13 DEF DeleteTrip
  <2> QED BY <1>2, <2>1, <2>2, <2>3, <2>4, <2>5, <2>6, <2>7, <2>8, <2>9, <2>10,
             <2>11, <2>12, <2>13 DEF Step
<1>3. ASSUME NEW p \in Procs, Start(p) \/ Abort(p) PROVE OwnerHasNoMemberRow'
      BY <1>1, <1>3, StartFrame DEF Abort, Refuse, table
<1> QED BY <1>1, <1>2, <1>3 DEF Next, SignIn, Expire, vars, table

LEMMA DecisionInductive ==
  Typed /\ StillDecided /\ OneDecision /\ [Next]_vars => OneDecision'
<1> SUFFICES ASSUME Typed, StillDecided, OneDecision, [Next]_vars PROVE OneDecision'
    OBVIOUS
<1> USE DEF OneDecision, Typed, TypeOK
<1>1. ASSUME UNCHANGED <<acceptedBy, revoked, declined>> PROVE OneDecision'
      BY <1>1
<1>2. ASSUME NEW p \in Procs, Step(p) PROVE OneDecision'
  <2> USE DEF Refuse, table
  <2>1. CASE CreateLock(p) BY <1>1, <2>1 DEF CreateLock
  <2>2. CASE CreateRevoke(p) BY <1>1, <2>2 DEF CreateRevoke
  <2>3. CASE CreateInsert(p)
    <3>1. CASE Collides(p) BY <1>1, <2>3, <3>1 DEF CreateInsert
    <3>2. CASE ~Collides(p)
      <4>1. \A i \in InvIds : i \in revoked' \ revoked => Active(i)
            BY <2>3, <3>2 DEF CreateInsert, StillDecided, DecidedUnderLock, ActiveFor
      <4> QED BY <2>3, <3>2, <4>1 DEF CreateInsert, Active
    <3> QED BY <3>1, <3>2
  <2>4. CASE Revoke(p) BY <2>4 DEF Revoke, Active
  <2>5. CASE AcceptLock(p) BY <1>1, <2>5 DEF AcceptLock
  <2>6. CASE AcceptRead(p) BY <1>1, <2>6 DEF AcceptRead
  <2>7. CASE AcceptWrite(p)
        BY <2>7 DEF AcceptWrite, StillDecided, DecidedUnderLock, Active
  <2>8. CASE Decline(p) BY <2>8 DEF Decline, Active
  <2>9. CASE UpdateRole(p) BY <1>1, <2>9 DEF UpdateRole
  <2>10. CASE RemoveMember(p) BY <1>1, <2>10 DEF RemoveMember
  <2>11. CASE TransferLock(p) BY <1>1, <2>11 DEF TransferLock
  <2>12. CASE TransferWrite(p) BY <1>1, <2>12 DEF TransferWrite
  <2>13. CASE DeleteTrip(p) BY <1>1, <2>13 DEF DeleteTrip
  <2> QED BY <1>2, <2>1, <2>2, <2>3, <2>4, <2>5, <2>6, <2>7, <2>8, <2>9, <2>10,
             <2>11, <2>12, <2>13 DEF Step
<1>3. ASSUME NEW p \in Procs, Start(p) \/ Abort(p) PROVE OneDecision'
      BY <1>1, <1>3, StartFrame DEF Abort, Refuse, table
<1> QED BY <1>1, <1>2, <1>3 DEF Next, SignIn, Expire, vars, table

\* The core of the inductive invariant, without the sign-ins.
Core ==
  Typed /\ IdsAreFresh /\ LockDiscipline /\ StillDecided /\ OwnerHasNoMemberRow /\ OneDecision

LEMMA CoreInvariant == Spec => []Core
<1>1. Init => OwnerHasNoMemberRow /\ OneDecision
      BY DEF Init, OwnerHasNoMemberRow, OneDecision
<1>2. Init => Core
      BY <1>1, TypedInit, IdsInit, LocksInit, DecidedInit DEF Core
<1>3. Core /\ [Next]_vars => Core'
      BY TypedInductive, IdsInductive, LocksInductive, DecidedInductive,
         OwnerInductive, DecisionInductive DEF Core
<1> QED BY <1>2, <1>3, PTL DEF Spec

-----------------------------------------------------------------------------
(***************************************************************************)
(* Sign-ins, and whom an invitation was accepted by.                       *)
(***************************************************************************)
Invited == SignedIn /\ AcceptedByInvitee

\* A request about to accept was started with a verified email of its user.
LEMMA StartPresents ==
  ASSUME Typed, SignedIn, NEW p \in Procs, Start(p), pc'[p] \in AcceptSteps
  PROVE  PresentedVerified(req'[p].user, req'[p].email)
<1> USE DEF Begin, Typed, TypeOK, AcceptSteps
<1>1. pc'[p] # "idle" /\ pc'[p] = "accept_lock" => StartAccept(p)
  BY DEF Start, StartCreate, StartRevoke, StartDecline, StartUpdateRole, StartRemoveMember,
         StartTransfer, StartDelete
<1>2. pc'[p] = "accept_lock"
  BY DEF Start, StartAccept, StartCreate, StartRevoke, StartDecline, StartUpdateRole,
         StartRemoveMember, StartTransfer, StartDelete
<1>3. PICK u \in Users, i \in rows : VerifiedEmail(u) /\ Begin(p, Answering(u, i), "accept_lock")
  BY <1>1, <1>2 DEF StartAccept
<1>4. req'[p].user = u /\ req'[p].email = account[u].email
  BY <1>3 DEF Answering
<1> QED BY <1>3, <1>4 DEF SignedIn, VerifiedEmail, PresentedVerified

\* A step leaves what other requests present alone, and its own while it accepts.
LEMMA StepPresents ==
  ASSUME Typed, NEW p \in Procs, Step(p), NEW q \in Procs, pc'[q] \in AcceptSteps
  PROVE  pc[q] \in AcceptSteps /\ req'[q] = req[q] /\ account' = account
<1> USE DEF Goto, Refuse, Finish, Typed, TypeOK, AcceptSteps
<1>1. CASE CreateLock(p) BY <1>1 DEF CreateLock
<1>2. CASE CreateRevoke(p) BY <1>2 DEF CreateRevoke
<1>3. CASE CreateInsert(p) BY <1>3 DEF CreateInsert
<1>4. CASE Revoke(p) BY <1>4 DEF Revoke
<1>5. CASE AcceptLock(p) BY <1>5 DEF AcceptLock
<1>6. CASE AcceptRead(p) BY <1>6 DEF AcceptRead
<1>7. CASE AcceptWrite(p) BY <1>7 DEF AcceptWrite
<1>8. CASE Decline(p) BY <1>8 DEF Decline
<1>9. CASE UpdateRole(p) BY <1>9 DEF UpdateRole
<1>10. CASE RemoveMember(p) BY <1>10 DEF RemoveMember
<1>11. CASE TransferLock(p) BY <1>11 DEF TransferLock
<1>12. CASE TransferWrite(p) BY <1>12 DEF TransferWrite
<1>13. CASE DeleteTrip(p) BY <1>13 DEF DeleteTrip
<1> QED BY <1>1, <1>2, <1>3, <1>4, <1>5, <1>6, <1>7, <1>8, <1>9, <1>10, <1>11, <1>12, <1>13
        DEF Step

\* A step leaves the terms of accepted invitations alone, and who accepted them.
LEMMA StepKeepsAccepted ==
  ASSUME Core, NEW p \in Procs, Step(p), ~AcceptWrite(p), NEW i \in InvIds
  PROVE  acceptedBy'[i] = acceptedBy[i] /\ (acceptedBy[i] # NoUser => terms'[i] = terms[i])
<1> USE DEF Refuse, table, Core, Typed, TypeOK
<1>1. CASE CreateInsert(p)
  <2>1. CASE Collides(p) BY <1>1, <2>1 DEF CreateInsert
  <2>2. CASE ~Collides(p)
    <3>1. terms[req[p].inv] = NoTerms BY <1>1 DEF CreateInsert, IdsAreFresh, CreateSteps
    <3>2. acceptedBy' = acceptedBy
          /\ terms' = [terms EXCEPT ![req[p].inv] = [email |-> req[p].email, role |-> req[p].role]]
      BY <1>1, <2>2 DEF CreateInsert
    <3> QED BY <3>1, <3>2 DEF IdsAreFresh
  <2> QED BY <2>1, <2>2
<1>2. CASE ~CreateInsert(p)
  <2>1. UNCHANGED <<acceptedBy, terms>>
    BY <1>2 DEF Step, CreateLock, CreateRevoke, Revoke, AcceptLock, AcceptRead, Decline,
                UpdateRole, RemoveMember, TransferLock, TransferWrite, DeleteTrip
  <2> QED BY <2>1
<1> QED BY <1>1, <1>2

LEMMA InvitedInductive == Core /\ Invited /\ [Next]_vars => Invited'
<1> SUFFICES ASSUME Core, Invited, [Next]_vars PROVE Invited'
    OBVIOUS
<1>1. Typed BY DEF Core
<1>2. ASSUME NEW p \in Procs, Step(p) PROVE Invited'
  <2>1. SignedIn'
    <3>1. account' = account
      BY <1>2 DEF Step, CreateLock, CreateRevoke, CreateInsert, Revoke, AcceptLock, AcceptRead,
                  AcceptWrite, Decline, UpdateRole, RemoveMember, TransferLock, TransferWrite,
                  DeleteTrip
    <3> QED BY <1>1, <1>2, <3>1, StepPresents DEF Invited, SignedIn, PresentedVerified
  <2>2. AcceptedByInvitee'
    <3>1. CASE AcceptWrite(p)
      <4> USE DEF Core, Typed, TypeOK
      <4>1. /\ terms[req[p].inv].email = req[p].email /\ pc[p] \in AcceptSteps
            /\ req[p].inv \in InvIds /\ req[p].user \in Users
        BY <3>1 DEF AcceptWrite, StillDecided, DecidedUnderLock, AcceptSteps, RequestsWellFormed
      <4>2. PresentedVerified(req[p].user, req[p].email)
        BY <4>1 DEF Invited, SignedIn
      <4>3. acceptedBy' = [acceptedBy EXCEPT ![req[p].inv] = req[p].user] /\ terms' = terms
        BY <3>1 DEF AcceptWrite
      <4> QED BY <4>1, <4>2, <4>3 DEF Invited, AcceptedByInvitee, PresentedVerified
    <3>2. CASE ~AcceptWrite(p)
      BY <1>2, <3>2, StepKeepsAccepted DEF Invited, AcceptedByInvitee
    <3> QED BY <3>1, <3>2
  <2> QED BY <2>1, <2>2 DEF Invited
<1>3. ASSUME NEW p \in Procs, Start(p) PROVE Invited'
  <2>1. UNCHANGED <<table, account>> /\ \A q \in Procs \ {p} : pc'[q] = pc[q] /\ req'[q] = req[q]
    BY <1>1, <1>3, StartFrame
  <2>2. SignedIn'
    BY <1>1, <1>3, <2>1, StartPresents DEF Invited, SignedIn, PresentedVerified
  <2>3. AcceptedByInvitee'
    BY <2>1 DEF Invited, AcceptedByInvitee, table
  <2> QED BY <2>2, <2>3 DEF Invited
<1>4. ASSUME NEW p \in Procs, Abort(p) PROVE Invited'
  <2>1. UNCHANGED <<table, account>> /\ pc'[p] = "idle"
        /\ \A q \in Procs \ {p} : pc'[q] = pc[q] /\ req'[q] = req[q]
    BY <1>1, <1>4 DEF Abort, Refuse, Finish, Typed, TypeOK
  <2> QED BY <2>1 DEF Invited, SignedIn, AcceptedByInvitee, PresentedVerified, table, AcceptSteps
<1>5. ASSUME NEW u \in Users, SignIn(u) PROVE Invited'
  <2>1. PICK a \in Profiles[u] : account' = [account EXCEPT ![u] = a]
    BY <1>5 DEF SignIn
  <2>2. UNCHANGED <<table, pc, req>>
    BY <1>5 DEF SignIn
  <2>3. \A v \in Users : account'[v] \in Profiles[v]
    BY <1>1, <2>1 DEF Invited, SignedIn, Typed, TypeOK
  <2> QED BY <2>2, <2>3 DEF Invited, SignedIn, AcceptedByInvitee, PresentedVerified, table
<1>6. ASSUME NEW i \in InvIds, Expire(i) PROVE Invited'
  BY <1>6 DEF Expire, Invited, SignedIn, AcceptedByInvitee, PresentedVerified, table
<1>7. CASE UNCHANGED vars
  BY <1>7 DEF vars, Invited, SignedIn, AcceptedByInvitee, PresentedVerified, table
<1> QED BY <1>2, <1>3, <1>4, <1>5, <1>6, <1>7 DEF Next

LEMMA InvitedInvariant == Spec => [](Core /\ Invited)
<1>1. Init => Invited
      BY DEF Init, Invited, SignedIn, AcceptedByInvitee, AcceptSteps
<1> QED BY <1>1, InvitedInductive, CoreInvariant, PTL DEF Spec

\* All that Memberships says of its tables, locks and requests, at every step.
THEOREM Invariance == Spec => []Inv
<1>1. Core /\ Invited => Inv
      BY DEF Core, Invited, Typed, Inv
<1> QED BY <1>1, InvitedInvariant, PTL

\* Who accepted an invitation once signed in with its email, verified: whatever
\* their row said later, and however acceptances, replacements and sign-ins raced.
THEOREM AcceptedByItsInvitee == Spec => []AcceptedByInvitee
<1>1. Invited => AcceptedByInvitee BY DEF Invited
<1> QED BY <1>1, InvitedInvariant, PTL

\* The owner of a trip is never listed among its members as well, through any
\* number of concurrent transfers, acceptances, removals and role changes.
THEOREM OwnerNeverMember == Spec => []OwnerHasNoMemberRow
<1>1. Core => OwnerHasNoMemberRow BY DEF Core
<1> QED BY <1>1, CoreInvariant, PTL

\* An invitation is accepted, declined or revoked, and never two of them.
THEOREM DecidedOnce == Spec => []OneDecision
<1>1. Core => OneDecision BY DEF Core
<1> QED BY <1>1, CoreInvariant, PTL

\* The unique index on active invitations never refuses a replacement.
THEOREM NeverCollides == Spec => []ReplacementNeverCollides
<1>1. Core => ReplacementNeverCollides
      BY DEF Core, StillDecided, DecidedUnderLock, ReplacementNeverCollides,
             Collides, ActiveFor
<1> QED BY <1>1, CoreInvariant, PTL

-----------------------------------------------------------------------------
(***************************************************************************)
(* Time: a request takes it when it arrives, before it waits for a lock.   *)
(***************************************************************************)

\* Only a request that came in time is let past the reading of the invitation.
TimelyWrites == \A p \in Procs : pc[p] = "accept_write" => ~req[p].late

\* A step takes nobody else to the acceptance, and its own request only in time.
LEMMA StepInTime ==
  ASSUME Typed, TimelyWrites, NEW p \in Procs, Step(p)
  PROVE  TimelyWrites'
<1>1. \A q \in Procs \ {p} : pc'[q] = pc[q] /\ (pc'[q] # "idle" => req'[q] = req[q])
  BY DEF Step, CreateLock, CreateRevoke, CreateInsert, Revoke, AcceptLock, AcceptRead,
         AcceptWrite, Decline, UpdateRole, RemoveMember, TransferLock, TransferWrite,
         DeleteTrip, Goto, Refuse, Finish, Typed, TypeOK
<1>2. pc'[p] = "accept_write" => ~req'[p].late
  BY DEF Step, CreateLock, CreateRevoke, CreateInsert, Revoke, AcceptLock, AcceptRead,
         AcceptWrite, Decline, UpdateRole, RemoveMember, TransferLock, TransferWrite,
         DeleteTrip, Goto, Refuse, Finish, Typed, TypeOK, MayAccept
<1> QED BY <1>1, <1>2 DEF TimelyWrites

LEMMA TimelyInductive == Typed /\ TimelyWrites /\ [Next]_vars => TimelyWrites'
<1> SUFFICES ASSUME Typed, TimelyWrites, [Next]_vars PROVE TimelyWrites'
    OBVIOUS
<1>1. ASSUME NEW p \in Procs, Start(p) PROVE TimelyWrites'
  BY <1>1, StartFrame DEF TimelyWrites, LockedSteps
<1>2. ASSUME NEW p \in Procs, Abort(p) PROVE TimelyWrites'
  BY <1>2 DEF Abort, Refuse, Finish, TimelyWrites, Typed, TypeOK
<1>3. CASE (\E u \in Users : SignIn(u)) \/ (\E i \in InvIds : Expire(i)) \/ UNCHANGED vars
  BY <1>3 DEF SignIn, Expire, vars, TimelyWrites
<1> QED BY StepInTime, <1>1, <1>2, <1>3 DEF Next

\* A request ends by a step of its own; the only two that decide an invitation
\* in the invitee's name decide nothing when the request came late.
LEMMA LateDecidesNothing ==
  ASSUME Typed, TimelyWrites, [Next]_vars,
         NEW p \in Procs, req[p].late, pc'[p] # pc[p], pc'[p] = "idle"
  PROVE  acceptedBy' = acceptedBy /\ declined' = declined
<1>1. ASSUME NEW q \in Procs, Step(q) PROVE acceptedBy' = acceptedBy /\ declined' = declined
  <2>1. q = p
    BY <1>1 DEF Step, CreateLock, CreateRevoke, CreateInsert, Revoke, AcceptLock, AcceptRead,
         AcceptWrite, Decline, UpdateRole, RemoveMember, TransferLock, TransferWrite,
         DeleteTrip, Goto, Refuse, Finish, Typed, TypeOK
  <2>2. ~AcceptWrite(p)
    BY DEF AcceptWrite, TimelyWrites
  <2>3. CASE Decline(p)
    BY <2>3 DEF Decline
  <2>4. CASE ~Decline(p)
    BY <1>1, <2>1, <2>2, <2>4
    DEF Step, CreateLock, CreateRevoke, CreateInsert, Revoke, AcceptLock, AcceptRead,
        UpdateRole, RemoveMember, TransferLock, TransferWrite, DeleteTrip, Refuse, table
  <2> QED BY <2>3, <2>4
<1>2. ASSUME NEW q \in Procs, Start(q) \/ Abort(q) PROVE acceptedBy' = acceptedBy /\ declined' = declined
  BY <1>2, StartFrame DEF Abort, Refuse, table
<1>3. CASE (\E u \in Users : SignIn(u)) \/ (\E i \in InvIds : Expire(i)) \/ UNCHANGED vars
  BY <1>3 DEF SignIn, Expire, vars, table
<1> QED BY <1>1, <1>2, <1>3 DEF Next

\* An invitation whose time was over when the request to accept or decline it
\* arrived stays undecided, whatever locks that request has to wait for.
THEOREM LateAnswersChangeNothing == Spec => ExpiredStaysUndecided
<1>1. Init => TimelyWrites
  BY DEF Init, TimelyWrites
<1>2. Typed /\ TimelyWrites /\ [Next]_vars
      => [\A p \in Procs : req[p].late /\ pc'[p] # pc[p] /\ pc'[p] = "idle"
            => acceptedBy' = acceptedBy /\ declined' = declined]_vars
  BY LateDecidesNothing
<1>3. Core => Typed
  BY DEF Core
<1> QED BY <1>1, <1>2, <1>3, CoreInvariant, TimelyInductive, PTL DEF Spec, ExpiredStaysUndecided

-----------------------------------------------------------------------------
(***************************************************************************)
(* Refinement: the step that commits a request's writes is the one step of *)
(* TripAccess that the request promises; every other step is invisible.    *)
(***************************************************************************)
\* What the refinement mapping shows of the tables.
RoleBar == [u \in Users |-> RoleOf(u)]
OfferBar == [i \in InvIds |-> OfferState(i)]
ToBar == [i \in InvIds |-> terms[i].email]
GrantsBar == [i \in InvIds |-> terms[i].role]

bars == <<RoleBar, OfferBar, ToBar, GrantsBar>>

\* The abstract state is a function of the tables alone.
LEMMA Invisible ==
  ASSUME UNCHANGED table
  PROVE  UNCHANGED bars
BY DEF table, bars, RoleBar, OfferBar, ToBar, GrantsBar, RoleOf, OfferState, Active

LEMMA SameOffer ==
  ASSUME NEW i \in InvIds, terms'[i] = terms[i], acceptedBy'[i] = acceptedBy[i],
         i \in rows' <=> i \in rows, i \in revoked' <=> i \in revoked,
         i \in declined' <=> i \in declined
  PROVE  OfferState(i)' = OfferState(i)
BY DEF OfferState, Active

\* An active invitation is an open offer, and only that is.
LEMMA OpenIsActive ==
  ASSUME Core, NEW i \in InvIds
  PROVE  /\ Active(i) <=> OfferState(i) = "open"
         /\ Active(i) => terms[i] # NoTerms
         /\ terms[i] = NoTerms <=> OfferState(i) = "unused"
BY DEF Core, IdsAreFresh, OfferState, Active

\* Before the deletion of the trip its owner is somebody, and afterwards nobody.
LEMMA OpenWhileOwned ==
  ASSUME Core
  PROVE  owner \in Users => RoleBar[owner] = "owner"
BY DEF RoleBar, RoleOf

-----------------------------------------------------------------------------
LEMMA InitRefines == Init => Access!Init
<1>. SUFFICES ASSUME Init PROVE Access!Init
  OBVIOUS
<1>1. RoleBar = [member EXCEPT ![owner] = "owner"]
  BY DEF Init, RoleBar, RoleOf
<1>2. owner \in Users /\ member \in [Users -> MemberRoles \union {"none"}]
  BY DEF Init
<1>3. OfferBar = [i \in InvIds |-> "unused"]
  BY DEF Init, OfferBar, OfferState, Active
<1>4. ToBar = [i \in InvIds |-> NoEmail] /\ GrantsBar = [i \in InvIds |-> "none"]
  BY DEF Init, ToBar, GrantsBar, NoTerms
<1>. QED BY <1>1, <1>2, <1>3, <1>4
  DEF Access!Init, Access!MemberRoles, MemberRoles, RoleBar, OfferBar, ToBar, GrantsBar

\* A replacement opens the new offer and withdraws the open ones to its address.
LEMMA InsertInvites ==
  ASSUME Core, NEW p \in Procs, CreateInsert(p), ~Collides(p)
  PROVE  \E i \in InvIds, e \in Emails, r \in MemberRoles : Access!Invite(i, e, r)
<1>0. PICK new, e, r : new = req[p].inv /\ e = req[p].email /\ r = req[p].role
  OBVIOUS
<1>1. /\ new \in InvIds /\ e \in Emails /\ r \in MemberRoles
      /\ terms[new] = NoTerms /\ owner = req[p].user /\ owner \in Users
      /\ \A i \in InvIds : invLock[i] = p <=> Active(i) /\ terms[i].email = e
  BY <1>0 DEF CreateInsert, Core, Typed, RequestsWellFormed, IdsAreFresh, CreateSteps, StillDecided,
         DecidedUnderLock, ActiveFor
<1>2. /\ rows' = rows \union {new}
      /\ terms' = [terms EXCEPT ![new] = [email |-> e, role |-> r]]
      /\ revoked' = revoked \union {i \in InvIds : invLock[i] = p}
      /\ UNCHANGED <<owner, member, acceptedBy, declined>>
  BY <1>0 DEF CreateInsert
<1>3. terms \in [InvIds -> [email : Emails \union {NoEmail}, role : MemberRoles \union {"none"}]]
  BY DEF Core, Typed, TypeOK
<1>4. new \notin rows /\ new \notin revoked /\ new \notin declined /\ acceptedBy[new] = NoUser
  BY <1>1 DEF Core, IdsAreFresh
<1>5. OfferState(new) = "unused" /\ OfferState(new)' = "open"
  <2>1. terms'[new] = [email |-> e, role |-> r] /\ terms'[new] # NoTerms
    BY <1>1, <1>2, <1>3 DEF NoTerms
  <2>2. Active(new)'
    BY <1>1, <1>2, <1>4 DEF Active
  <2>3. OfferState(new)' = "open"
    BY <1>2, <2>1, <2>2 DEF OfferState, Active
  <2>. QED BY <1>1, <2>3, OpenIsActive
<1>6. ASSUME NEW j \in InvIds, j # new
      PROVE  OfferState(j)' = IF OfferState(j) = "open" /\ terms[j].email = e
                                THEN "revoked" ELSE OfferState(j)
  <2>1. terms'[j] = terms[j] /\ (j \in rows' <=> j \in rows)
    BY <1>2, <1>3, <1>6
  <2>2. CASE Active(j) /\ terms[j].email = e
    <3>1. j \in revoked' /\ j \in rows' /\ acceptedBy'[j] = NoUser /\ j \notin declined'
      BY <1>1, <1>2, <2>1, <2>2 DEF Active
    <3>2. terms'[j] # NoTerms /\ OfferState(j) = "open"
      BY <2>1, <2>2, OpenIsActive
    <3>. QED BY <2>2, <3>1, <3>2 DEF OfferState, Active
  <2>3. CASE ~(Active(j) /\ terms[j].email = e)
    <3>1. j \in revoked' <=> j \in revoked
      BY <1>1, <1>2, <2>3
    <3>. QED BY <1>2, <2>1, <2>3, <3>1, SameOffer, OpenIsActive
  <2>. QED BY <2>2, <2>3
<1>7. ToBar' = [ToBar EXCEPT ![new] = e] /\ GrantsBar' = [GrantsBar EXCEPT ![new] = r]
  BY <1>1, <1>2, <1>3 DEF ToBar, GrantsBar
<1>8. RoleBar' = RoleBar
  BY <1>2 DEF RoleBar, RoleOf
<1>9. OfferBar' = [j \in InvIds |-> IF j = new THEN "open"
                                    ELSE IF OfferBar[j] = "open" /\ ToBar[j] = e THEN "revoked"
                                    ELSE OfferBar[j]]
  BY <1>5, <1>6 DEF OfferBar, ToBar
<1>10. OfferBar[new] = "unused" /\ RoleBar[owner] = "owner"
  BY <1>1, <1>5, OpenWhileOwned DEF OfferBar
<1>11. Access!Invite(new, e, r)
  BY <1>1, <1>7, <1>8, <1>9, <1>10
  DEF Access!Invite, Access!Closed, Access!Open, RoleBar, OfferBar, ToBar, GrantsBar
<1>. QED BY <1>1, <1>11

\* What ends an open offer without anybody joining.
LEMMA EndsOffer ==
  ASSUME Core, NEW i \in InvIds, Active(i), NEW how \in {"revoked", "declined"},
         UNCHANGED <<owner, member, rows, terms, acceptedBy>>,
         revoked' = IF how = "revoked" THEN revoked \union {i} ELSE revoked,
         declined' = IF how = "declined" THEN declined \union {i} ELSE declined
  PROVE  Access!Withdraw(i, how)
<1>1. OfferState(i) = "open" /\ terms[i] # NoTerms
  BY OpenIsActive
<1>2. OfferState(i)' = how
  <2>1. i \in rows' /\ acceptedBy'[i] = NoUser /\ terms'[i] # NoTerms /\ ~Active(i)'
    BY <1>1 DEF Active
  <2>2. i \in declined' <=> how = "declined"
    BY DEF Active
  <2>. QED BY <2>1, <2>2 DEF OfferState
<1>3. \A j \in InvIds \ {i} : OfferState(j)' = OfferState(j)
  BY SameOffer
<1>4. OfferBar' = [OfferBar EXCEPT ![i] = how]
  BY <1>2, <1>3 DEF OfferBar
<1>5. RoleBar' = RoleBar /\ ToBar' = ToBar /\ GrantsBar' = GrantsBar
  BY DEF RoleBar, RoleOf, ToBar, GrantsBar
<1>. QED BY <1>1, <1>4, <1>5 DEF Access!Withdraw, Access!Open, RoleBar, OfferBar, ToBar, GrantsBar

LEMMA RevokeWithdraws ==
  ASSUME Core, NEW p \in Procs, Revoke(p)
  PROVE  UNCHANGED table \/ \E i \in InvIds : Access!Withdraw(i, "revoked")
<1>1. PICK i \in InvIds : i = req[p].inv
  BY DEF Revoke, Core, Typed, RequestsWellFormed
<1>2. CASE Active(i)
  <2>1. /\ revoked' = revoked \union {i}
        /\ UNCHANGED <<owner, member, rows, terms, acceptedBy, declined>>
    BY <1>1, <1>2 DEF Revoke
  <2>. QED BY <1>2, <2>1, EndsOffer
<1>3. CASE ~Active(i)
  BY <1>1, <1>3 DEF Revoke, table
<1>. QED BY <1>2, <1>3

LEMMA DeclineWithdraws ==
  ASSUME Core, NEW p \in Procs, Decline(p)
  PROVE  UNCHANGED table \/ \E i \in InvIds : Access!Withdraw(i, "declined")
<1>1. PICK i \in InvIds : i = req[p].inv
  BY DEF Decline, Core, Typed, RequestsWellFormed
<1>2. CASE Active(i) /\ declined' # declined
  <2>1. /\ declined' = declined \union {i}
        /\ UNCHANGED <<owner, member, rows, terms, acceptedBy, revoked>>
    BY <1>1, <1>2 DEF Decline
  <2>. QED BY <1>2, <2>1, EndsOffer
<1>3. CASE ~(Active(i) /\ declined' # declined)
  BY <1>1, <1>3 DEF Decline, table
<1>. QED BY <1>2, <1>3

\* The acceptance uses up an offer that is still open, for somebody who is not
\* the owner: what AcceptRead found holds until the commit.
LEMMA AcceptJoins ==
  ASSUME Core, NEW p \in Procs, AcceptWrite(p)
  PROVE  Access!Join(req[p].inv, req[p].user)
<1>1. PICK i \in InvIds, u \in Users : i = req[p].inv /\ u = req[p].user
  BY DEF AcceptWrite, Core, Typed, RequestsWellFormed, AcceptSteps
<1>2. Active(i) /\ owner # u
  BY <1>1 DEF AcceptWrite, Core, StillDecided, DecidedUnderLock
<1>3. /\ member' = [member EXCEPT ![u] = terms[i].role]
      /\ acceptedBy' = [acceptedBy EXCEPT ![i] = u]
      /\ UNCHANGED <<owner, rows, terms, revoked, declined>>
  BY <1>1 DEF AcceptWrite
<1>4. /\ member \in [Users -> MemberRoles \union {"none"}]
      /\ acceptedBy \in [InvIds -> Users \union {NoUser}]
  BY DEF Core, Typed, TypeOK
<1>5. OfferState(i) = "open" /\ OfferState(i)' = "accepted"
  <2>1. terms'[i] # NoTerms /\ i \in rows' /\ acceptedBy'[i] # NoUser /\ ~Active(i)'
    BY <1>2, <1>3, <1>4, OpenIsActive DEF Active
  <2>. QED BY <1>2, <2>1, OpenIsActive DEF OfferState
<1>6. \A j \in InvIds \ {i} : OfferState(j)' = OfferState(j)
  BY <1>3, <1>4, SameOffer
<1>7. OfferBar' = [OfferBar EXCEPT ![i] = "accepted"]
  BY <1>5, <1>6 DEF OfferBar
<1>8. RoleBar' = [RoleBar EXCEPT ![u] = GrantsBar[i]] /\ RoleBar[u] # "owner"
  BY <1>2, <1>3, <1>4 DEF RoleBar, RoleOf, GrantsBar, MemberRoles
<1>9. ToBar' = ToBar /\ GrantsBar' = GrantsBar /\ OfferBar[i] = "open"
  BY <1>3, <1>5 DEF ToBar, GrantsBar, OfferBar
<1>. QED BY <1>1, <1>7, <1>8, <1>9
  DEF Access!Join, Access!Open, RoleBar, OfferBar, ToBar, GrantsBar

\* A role is only changed of somebody who has a row, and the owner has none.
LEMMA UpdateChanges ==
  ASSUME Core, NEW p \in Procs, UpdateRole(p)
  PROVE  UNCHANGED table \/ \E u \in Users, r \in MemberRoles : Access!ChangeRole(u, r)
<1>1. PICK u \in Users, r \in MemberRoles : u = req[p].target /\ r = req[p].role
  BY DEF UpdateRole, Core, Typed, RequestsWellFormed
<1>2. /\ member' = [member EXCEPT ![u] = IF @ = "none" THEN "none" ELSE r]
      /\ UNCHANGED <<owner, rows, terms, acceptedBy, revoked, declined>>
  BY <1>1 DEF UpdateRole
<1>3. member \in [Users -> MemberRoles \union {"none"}]
  BY DEF Core, Typed, TypeOK
<1>4. CASE member[u] = "none"
  BY <1>2, <1>3, <1>4 DEF table
<1>5. CASE member[u] # "none"
  <2>1. owner # u
    BY <1>5 DEF Core, OwnerHasNoMemberRow
  <2>2. RoleBar' = [RoleBar EXCEPT ![u] = r] /\ RoleBar[u] \in MemberRoles
    BY <1>2, <1>3, <1>5, <2>1 DEF RoleBar, RoleOf
  <2>3. OfferBar' = OfferBar /\ ToBar' = ToBar /\ GrantsBar' = GrantsBar
    BY <1>2, SameOffer DEF OfferBar, ToBar, GrantsBar
  <2>4. Access!ChangeRole(u, r)
    BY <2>2, <2>3 DEF Access!ChangeRole, Access!MemberRoles, MemberRoles, RoleBar, OfferBar,
                      ToBar, GrantsBar
  <2>. QED BY <2>4
<1>. QED BY <1>4, <1>5

LEMMA RemoveLeaves ==
  ASSUME Core, NEW p \in Procs, RemoveMember(p)
  PROVE  UNCHANGED table \/ \E u \in Users : Access!Leave(u)
<1>1. PICK u : u = req[p].target
  OBVIOUS
<1>2. /\ member' = [member EXCEPT ![u] = "none"]
      /\ UNCHANGED <<owner, rows, terms, acceptedBy, revoked, declined>>
  BY <1>1 DEF RemoveMember
<1>3. member \in [Users -> MemberRoles \union {"none"}]
  BY DEF Core, Typed, TypeOK
<1>4. CASE u \notin Users \/ member[u] = "none"
  BY <1>2, <1>3, <1>4 DEF table
<1>5. CASE u \in Users /\ member[u] # "none"
  <2>1. owner # u
    BY <1>5 DEF Core, OwnerHasNoMemberRow
  <2>2. RoleBar' = [RoleBar EXCEPT ![u] = "none"] /\ RoleBar[u] \in MemberRoles
    BY <1>2, <1>3, <1>5, <2>1 DEF RoleBar, RoleOf
  <2>3. OfferBar' = OfferBar /\ ToBar' = ToBar /\ GrantsBar' = GrantsBar
    BY <1>2, SameOffer DEF OfferBar, ToBar, GrantsBar
  <2>4. Access!Leave(u)
    BY <2>2, <2>3 DEF Access!Leave, Access!MemberRoles, MemberRoles, RoleBar, OfferBar,
                      ToBar, GrantsBar
  <2>. QED BY <1>5, <2>4
<1>. QED BY <1>4, <1>5

\* The upsert of the old owner's row, the deletion of the new one's and the
\* owner column are one step, from an owner to somebody else.
LEMMA TransferHandsOver ==
  ASSUME Core, NEW p \in Procs, TransferWrite(p)
  PROVE  \E u, v \in Users : Access!HandOver(u, v)
<1>1. PICK u \in Users, v \in Users : u = req[p].user /\ v = req[p].target /\ u # v
  BY DEF TransferWrite, Core, Typed, RequestsWellFormed
<1>2. owner = u
  BY <1>1 DEF TransferWrite, Core, StillDecided, DecidedUnderLock
<1>3. /\ member' = [member EXCEPT ![u] = "editor", ![v] = "none"]
      /\ owner' = v
      /\ UNCHANGED <<rows, terms, acceptedBy, revoked, declined>>
  BY <1>1 DEF TransferWrite
<1>4. member \in [Users -> MemberRoles \union {"none"}]
  BY DEF Core, Typed, TypeOK
<1>5. RoleBar' = [RoleBar EXCEPT ![u] = "editor", ![v] = "owner"] /\ RoleBar[u] = "owner"
  BY <1>1, <1>2, <1>3, <1>4 DEF RoleBar, RoleOf
<1>6. OfferBar' = OfferBar /\ ToBar' = ToBar /\ GrantsBar' = GrantsBar
  BY <1>3, SameOffer DEF OfferBar, ToBar, GrantsBar
<1>7. Access!HandOver(u, v)
  BY <1>1, <1>5, <1>6 DEF Access!HandOver, RoleBar, OfferBar, ToBar, GrantsBar
<1>. QED BY <1>7

LEMMA DeleteCloses ==
  ASSUME Core, NEW p \in Procs, DeleteTrip(p)
  PROVE  UNCHANGED table \/ Access!Close
<1>1. CASE owner # req[p].user
  BY <1>1 DEF DeleteTrip, Refuse
<1>2. CASE owner = req[p].user
  <2>1. owner \in Users
    BY <1>2 DEF DeleteTrip, Core, Typed, RequestsWellFormed
  <2>2. /\ owner' = NoUser /\ member' = [u \in Users |-> "none"] /\ rows' = {}
        /\ UNCHANGED <<terms, acceptedBy, revoked, declined>>
    BY <1>2 DEF DeleteTrip
  <2>3. RoleBar' = [u \in Users |-> "none"]
    BY <2>2 DEF RoleBar, RoleOf
  <2>4. ASSUME NEW i \in InvIds
        PROVE  OfferState(i)' = IF OfferState(i) = "unused" THEN "unused" ELSE "gone"
    <3>1. CASE terms[i] = NoTerms
      <4>1. terms'[i] = NoTerms /\ i \notin rows' /\ ~Active(i)'
        BY <2>2, <3>1 DEF Active
      <4>. QED BY <3>1, <4>1, OpenIsActive DEF OfferState
    <3>2. CASE terms[i] # NoTerms
      <4>1. terms'[i] # NoTerms /\ i \notin rows' /\ ~Active(i)'
        BY <2>2, <3>2 DEF Active
      <4>. QED BY <3>2, <4>1, OpenIsActive DEF OfferState
    <3>. QED BY <3>1, <3>2
  <2>5. OfferBar' = [i \in InvIds |-> IF OfferBar[i] = "unused" THEN "unused" ELSE "gone"]
    BY <2>4 DEF OfferBar
  <2>6. ToBar' = ToBar /\ GrantsBar' = GrantsBar /\ RoleBar[owner] = "owner"
    BY <2>1, <2>2, OpenWhileOwned DEF ToBar, GrantsBar
  <2>7. Access!Close
    BY <2>1, <2>3, <2>5, <2>6
    DEF Access!Close, Access!Closed, RoleBar, OfferBar, ToBar, GrantsBar
  <2>. QED BY <2>7
<1>. QED BY <1>1, <1>2

-----------------------------------------------------------------------------
\* Every step is a step of TripAccess or leaves the tables as they are.
LEMMA StepRefines == Core /\ [Next]_vars => [Access!Next]_(Access!vars)
<1>. SUFFICES ASSUME Core, [Next]_vars PROVE Access!Next \/ UNCHANGED bars
  BY DEF Access!vars, bars, RoleBar, OfferBar, ToBar, GrantsBar
<1>1. ASSUME UNCHANGED table PROVE UNCHANGED bars
  BY <1>1, Invisible
<1>2. ASSUME NEW p \in Procs, Step(p) PROVE Access!Next \/ UNCHANGED bars
  <2>1. CASE CreateLock(p) BY <1>1, <2>1 DEF CreateLock, Refuse
  <2>2. CASE CreateRevoke(p) BY <1>1, <2>2 DEF CreateRevoke
  <2>3. CASE CreateInsert(p)
    <3>1. CASE Collides(p) BY <1>1, <2>3, <3>1 DEF CreateInsert, Refuse
    <3>2. CASE ~Collides(p)
      BY <2>3, <3>2, InsertInvites DEF Access!Next, Access!MemberRoles, MemberRoles
    <3>. QED BY <3>1, <3>2
  <2>4. CASE Revoke(p) BY <1>1, <2>4, RevokeWithdraws DEF Access!Next
  <2>5. CASE AcceptLock(p) BY <1>1, <2>5 DEF AcceptLock, Refuse
  <2>6. CASE AcceptRead(p) BY <1>1, <2>6 DEF AcceptRead, Refuse
  <2>7. CASE AcceptWrite(p)
    <3>1. req[p].inv \in InvIds /\ req[p].user \in Users
      BY <2>7 DEF AcceptWrite, Core, Typed, RequestsWellFormed, AcceptSteps
    <3>. QED BY <2>7, <3>1, AcceptJoins DEF Access!Next
  <2>8. CASE Decline(p) BY <1>1, <2>8, DeclineWithdraws DEF Access!Next
  <2>9. CASE UpdateRole(p)
    BY <1>1, <2>9, UpdateChanges DEF Access!Next, Access!MemberRoles, MemberRoles
  <2>10. CASE RemoveMember(p) BY <1>1, <2>10, RemoveLeaves DEF Access!Next
  <2>11. CASE TransferLock(p) BY <1>1, <2>11 DEF TransferLock, Refuse
  <2>12. CASE TransferWrite(p) BY <2>12, TransferHandsOver DEF Access!Next
  <2>13. CASE DeleteTrip(p) BY <1>1, <2>13, DeleteCloses DEF Access!Next
  <2>. QED BY <1>2, <2>1, <2>2, <2>3, <2>4, <2>5, <2>6, <2>7, <2>8, <2>9, <2>10, <2>11, <2>12,
              <2>13 DEF Step
<1>3. ASSUME NEW p \in Procs, Start(p) \/ Abort(p) PROVE UNCHANGED bars
  BY <1>1, <1>3, StartFrame DEF Core, Abort, Refuse
<1>4. CASE \/ \E u \in Users : SignIn(u)
           \/ \E i \in InvIds : Expire(i)
           \/ UNCHANGED vars
  BY <1>1, <1>4 DEF SignIn, Expire, vars
<1>. QED BY <1>2, <1>3, <1>4 DEF Next

\* Interleaved requests, cancelled ones and sign-ins included, what a trip's
\* users see of its roles and offers is a behaviour of TripAccess: each
\* request takes effect at once or not at all.
THEOREM Refines == Spec => ImplementsTripAccess
<1>. QED BY InitRefines, StepRefines, CoreInvariant, PTL DEF Spec, ImplementsTripAccess, Access!Spec
=============================================================================
