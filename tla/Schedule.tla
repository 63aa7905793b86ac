------------------------------- MODULE Schedule -------------------------------
(***************************************************************************)
(* One trip's window and the activities inside it: trips.Update and Delete *)
(* (src/internal/trips), the itinerary's writes and their submission keys  *)
(* (src/internal/itinerary).                                               *)
(*                                                                         *)
(* An activity is validated twice: the service reads the trip's window and *)
(* zone with a statement of its own, the repository reads them again under *)
(* the trip's row lock.  As in Memberships, a step is a run of statements  *)
(* no other request can come between, and an open transaction publishes    *)
(* its writes when it commits.  Who is an editor is Memberships' business: *)
(* requests here come from editors, or from users who just were.  Instants *)
(* stand for the timestamps, and an interval is [from, to).                *)
(***************************************************************************)
EXTENDS Naturals, FiniteSets

CONSTANTS
  Users,        \* editors
  Procs,        \* requests the server can have in flight
  ActIds,       \* activity ids; the bound on activities ever created
  Keys,         \* Idempotency-Key values
  Spans,        \* intervals requests ask for
  Windows,      \* windows trips.Update asks for, once validated
  DayOf,        \* DayOf[z][t]: the local date of instant t in zone z
  NoTrip, NoAct, NoKey, NoPlan, NoProc, NoZone

Zones == DOMAIN DayOf
Instants == UNION {DOMAIN DayOf[z] : z \in Zones}

\* trips.validate: either ordered exact times or ordered dates, and the zone
\* of the destination.  Exact times carry their dates with them.
WindowOK(w) ==
  IF w.exact THEN {w.from, w.to} \subseteq Instants /\ w.from < w.to ELSE w.from <= w.to

ASSUME DayOfAssumption == \A z \in Zones : DayOf[z] \in [Instants -> Nat]
ASSUME InstantsAssumption == Instants \subseteq Nat
ASSUME ActIdsAssumption == ActIds \subseteq Nat
ASSUME SpansAssumption ==
  \A s \in Spans : s \in [from : Instants, to : Instants] /\ s.from < s.to
ASSUME WindowsAssumption ==
  /\ Windows \subseteq [exact : BOOLEAN, from : Nat, to : Nat, zone : Zones]
  /\ \A w \in Windows : WindowOK(w)
ASSUME NullsAssumption ==
  /\ NoTrip \notin Windows
  /\ NoAct \notin ActIds
  /\ NoKey \notin Keys
  /\ NoProc \notin Procs
  /\ NoZone \notin Zones

Activity == [from : Instants, to : Instants, zone : Zones]

\* activity_plan_requests: the hash stands for what is hashed, the id and the
\* input with the zone the service filled in; made is the saved response's id.
Plan ==
  [id : ActIds \union {NoAct}, from : Instants, to : Instants, zone : Zones,
   made : ActIds, live : BOOLEAN]

ASSUME NoPlanAssumption == NoPlan \notin Plan /\ NoAct \notin Activity

VARIABLES
  trip,      \* the row of trips, NoTrip once deleted
  act,       \* itinerary_items
  used,      \* activity ids ever given out
  plans,     \* activity_plan_requests by actor and key
  answered,  \* history: activities a caller was answered with under a key
  lock,      \* request holding the trip's row lock
  pc,        \* the next step of each request
  req        \* what each request carries

table == <<trip, act, used, plans, answered>>
vars == <<table, lock, pc, req>>

\* What a request carries: an activity to save (with id NoAct, to create), an
\* activity to delete, the trip's next window, or nothing.
Save == [user : Users, id : ActIds \union {NoAct}, from : Instants, to : Instants,
         zone : Zones \union {NoZone}, key : Keys \union {NoKey}]
Nothing == [id |-> NoAct]
Requests == Save \union [id : ActIds \union {NoAct}] \union [window : Windows]

Steps == {"idle", "read_window", "save_lock", "save_write", "delete",
          "trip_lock", "trip_write", "delete_trip"}

TypeOK ==
  /\ trip \in Windows \union {NoTrip}
  /\ act \in [ActIds -> Activity \union {NoAct}]
  /\ used \subseteq ActIds
  /\ plans \in [Users \X Keys -> Plan \union {NoPlan}]
  /\ answered \in [Users \X Keys -> SUBSET ActIds]
  /\ lock \in Procs \union {NoProc}
  /\ pc \in [Procs -> Steps]
  /\ req \in [Procs -> Requests]

-----------------------------------------------------------------------------
Live == {a \in ActIds : act[a] # NoAct}

\* The window check of validateForTrip, of checkWindowLocked and, over the
\* saved activities, of trips.Update: exact times bound the interval, dates
\* bound the local dates of both its ends.
Fits(span, w) ==
  IF w.exact
    THEN w.from <= span.from /\ span.to <= w.to
    ELSE \A t \in {span.from, span.to} : DayOf[w.zone][t] \in w.from .. w.to

\* Slip: touching intervals count.
ListedTouching(a, b) == act[a].from <= act[b].to /\ act[b].from <= act[a].to

\* SQL of Conflicts: pairs in id order and the interval they share.
Listed(a, b) == act[a].from < act[b].to /\ act[b].from < act[a].to

Overlap(a, b) ==
  [from |-> IF act[a].from > act[b].from THEN act[a].from ELSE act[b].from,
   to |-> IF act[a].to < act[b].to THEN act[a].to ELSE act[b].to]

Conflicts ==
  {<<c[1], c[2], Overlap(c[1], c[2])>> :
     c \in {pair \in Live \X Live : pair[1] < pair[2] /\ Listed(pair[1], pair[2])}}

-----------------------------------------------------------------------------
(***************************************************************************)
(* The transaction of a request.                                           *)
(***************************************************************************)
\* RequireEditor finds a role, so the trip exists when a request arrives.
Begin(p, r, step) ==
  /\ pc[p] = "idle"
  /\ trip # NoTrip
  /\ req' = [req EXCEPT ![p] = r]
  /\ pc' = [pc EXCEPT ![p] = step]
  /\ UNCHANGED <<table, lock>>

\* End of the request: COMMIT or ROLLBACK gives the trip's row back.
Finish(p) ==
  /\ pc' = [pc EXCEPT ![p] = "idle"]
  /\ req' = [req EXCEPT ![p] = Nothing]
  /\ lock' = IF lock = p THEN NoProc ELSE lock

Refuse(p) == Finish(p) /\ UNCHANGED table

\* SELECT ... FROM trips WHERE id=$1 FOR UPDATE, kept until COMMIT.
Take(p, step) ==
  /\ lock' = p
  /\ pc' = [pc EXCEPT ![p] = step]
  /\ UNCHANGED <<table, req>>

-----------------------------------------------------------------------------
(***************************************************************************)
(* POST and PUT of an activity.                                            *)
(***************************************************************************)
StartSave(p) ==
  \E u \in Users, i \in used \union {NoAct}, s \in Spans, k \in Keys \union {NoKey} :
    Begin(p, [user |-> u, id |-> i, from |-> s.from, to |-> s.to,
              zone |-> NoZone, key |-> k], "read_window")

\* validateForTrip: the service fills in the zone it reads.
ReadWindow(p) ==
  /\ pc[p] = "read_window"
  /\ trip # NoTrip /\ Fits(req[p], trip)
  /\ req' = [req EXCEPT ![p].zone = trip.zone]
  /\ pc' = [pc EXCEPT ![p] = "save_lock"]
  /\ UNCHANGED <<table, lock>>

RefuseWindow(p) ==
  /\ pc[p] = "read_window"
  /\ ~(trip # NoTrip /\ Fits(req[p], trip))
  /\ Refuse(p)

\* checkWindowLocked.
StillFits(p) == trip # NoTrip /\ Fits(req[p], trip) /\ req[p].zone = trip.zone

Owned(p) == <<req[p].user, req[p].key>>

Submitted(p) == req[p].key # NoKey /\ plans[Owned(p)] # NoPlan

\* previousPlan compares the hashes, and the saved activity must be there.
SameSubmission(p) ==
  LET plan == plans[Owned(p)]
  IN /\ plan.live
     /\ <<plan.id, plan.from, plan.to, plan.zone>>
          = <<req[p].id, req[p].from, req[p].to, req[p].zone>>

Saved(p) == [from |-> req[p].from, to |-> req[p].to, zone |-> req[p].zone]

SaveLock(p) ==
  /\ pc[p] = "save_lock"
  /\ lock = NoProc
  /\ StillFits(p) /\ ~Submitted(p)
  /\ Take(p, "save_write")

\* Slip: the retry falls through to the UPDATE before it answers.
ReplayWriting(p) ==
  /\ pc[p] = "save_lock"
  /\ lock = NoProc
  /\ StillFits(p) /\ Submitted(p) /\ SameSubmission(p)
  /\ answered' = [answered EXCEPT ![Owned(p)] = @ \union {plans[Owned(p)].made}]
  /\ act' = [act EXCEPT ![plans[Owned(p)].made] = Saved(p)]
  /\ Finish(p)
  /\ UNCHANGED <<trip, used, plans>>

\* Answered with the saved response: nothing is written.
Replay(p) ==
  /\ pc[p] = "save_lock"
  /\ lock = NoProc
  /\ StillFits(p) /\ Submitted(p) /\ SameSubmission(p)
  /\ answered' = [answered EXCEPT ![Owned(p)] = @ \union {plans[Owned(p)].made}]
  /\ Finish(p)
  /\ UNCHANGED <<trip, act, used, plans>>

RefuseLocked(p) ==
  /\ pc[p] = "save_lock"
  /\ lock = NoProc
  /\ ~(StillFits(p) /\ (Submitted(p) => SameSubmission(p)))
  /\ Refuse(p)

\* Slip: only submissions that update are recorded.
RecordUpdates(p, made) ==
  /\ plans' = IF req[p].key = NoKey \/ req[p].id = NoAct THEN plans ELSE [plans EXCEPT ![Owned(p)] =
       [id |-> req[p].id, from |-> req[p].from, to |-> req[p].to,
        zone |-> req[p].zone, made |-> made, live |-> TRUE]]
  /\ answered' = IF req[p].key = NoKey THEN answered
                 ELSE [answered EXCEPT ![Owned(p)] = @ \union {made}]

\* finishPlan: the key, the hash and the response commit with the activity.
Record(p, made) ==
  IF req[p].key = NoKey
    THEN UNCHANGED <<plans, answered>>
    ELSE /\ plans' = [plans EXCEPT ![Owned(p)] =
              [id |-> req[p].id, from |-> req[p].from, to |-> req[p].to,
               zone |-> req[p].zone, made |-> made, live |-> TRUE]]
         /\ answered' = [answered EXCEPT ![Owned(p)] = @ \union {made}]

\* INSERT or UPDATE, the costs, the submission, COMMIT.
SaveWrite(p) ==
  /\ pc[p] = "save_write"
  /\ ~Submitted(p)
  /\ \E i \in IF req[p].id = NoAct THEN ActIds \ used ELSE {req[p].id} \intersect Live :
       /\ act' = [act EXCEPT ![i] = Saved(p)]
       /\ used' = used \union {i}
       /\ Record(p, i)
  /\ Finish(p)
  /\ UNCHANGED trip

\* The activity is gone, a cost is refused, or the key's primary key is taken.
RefuseWrite(p) == pc[p] = "save_write" /\ Refuse(p)

(***************************************************************************)
(* DELETE of an activity: one statement, which also clears the activity of *)
(* the submissions that made it.  It does not lock the trip.               *)
(***************************************************************************)
StartDelete(p) == \E i \in used : Begin(p, [id |-> i], "delete")

Delete(p) ==
  /\ pc[p] = "delete"
  /\ act' = [act EXCEPT ![req[p].id] = NoAct]
  /\ plans' = [k \in Users \X Keys |->
       IF plans[k] # NoPlan /\ plans[k].made = req[p].id
         THEN [plans[k] EXCEPT !.live = FALSE]
         ELSE plans[k]]
  /\ Finish(p)
  /\ UNCHANGED <<trip, used, answered>>

-----------------------------------------------------------------------------
(***************************************************************************)
(* PUT /trips/{id}: under the trip's row lock, no saved activity may fall  *)
(* outside the new window; then the window and the activities' zones.      *)
(***************************************************************************)
StartTripUpdate(p) == \E w \in Windows : Begin(p, [window |-> w], "trip_lock")

Excludes(w) == \E a \in Live : ~Fits(act[a], w)

TripLock(p) ==
  /\ pc[p] = "trip_lock"
  /\ lock = NoProc
  /\ IF trip # NoTrip /\ ~Excludes(req[p].window) THEN Take(p, "trip_write") ELSE Refuse(p)

\* Slip: the saved activities keep the zone they had.
TripWriteKeepingZones(p) ==
  /\ pc[p] = "trip_write"
  /\ trip' = req[p].window
  /\ Finish(p)
  /\ UNCHANGED <<act, used, plans, answered>>

TripWrite(p) ==
  /\ pc[p] = "trip_write"
  /\ trip' = req[p].window
  /\ act' = [a \in ActIds |->
       IF act[a] = NoAct THEN NoAct ELSE [act[a] EXCEPT !.zone = trip'.zone]]
  /\ Finish(p)
  /\ UNCHANGED <<used, plans, answered>>

\* DELETE /trips/{id}: activities and submissions go with the trip.
StartDeleteTrip(p) == Begin(p, Nothing, "delete_trip")

DeleteTrip(p) ==
  /\ pc[p] = "delete_trip"
  /\ lock = NoProc
  /\ trip' = NoTrip
  /\ act' = [a \in ActIds |-> NoAct]
  /\ plans' = [k \in Users \X Keys |-> NoPlan]
  /\ Finish(p)
  /\ UNCHANGED <<used, answered>>

\* The timeout, a disconnect or a crash of the server.
Abort(p) == pc[p] # "idle" /\ Refuse(p)

Init ==
  /\ trip \in Windows
  /\ act = [a \in ActIds |-> NoAct]
  /\ used = {}
  /\ plans = [k \in Users \X Keys |-> NoPlan]
  /\ answered = [k \in Users \X Keys |-> {}]
  /\ lock = NoProc
  /\ pc = [p \in Procs |-> "idle"]
  /\ req = [p \in Procs |-> Nothing]

Start(p) ==
  StartSave(p) \/ StartDelete(p) \/ StartTripUpdate(p) \/ StartDeleteTrip(p)

Step(p) ==
  \/ ReadWindow(p) \/ RefuseWindow(p)
  \/ SaveLock(p) \/ Replay(p) \/ RefuseLocked(p)
  \/ SaveWrite(p) \/ RefuseWrite(p)
  \/ Delete(p)
  \/ TripLock(p) \/ TripWrite(p)
  \/ DeleteTrip(p)

Next == \E p \in Procs : Start(p) \/ Step(p) \/ Abort(p)

Spec == Init /\ [][Next]_vars

-----------------------------------------------------------------------------
(***************************************************************************)
(* Properties.                                                             *)
(***************************************************************************)

\* Whatever window the service read, however the trip moved meanwhile, every
\* saved activity lies inside its trip's window and carries the trip's zone.
\* trips.Update rejects windows by the activities it sees, and an activity
\* being saved is not among them.
ActivitiesFit ==
  \A a \in Live : trip # NoTrip /\ Fits(act[a], trip) /\ act[a].zone = trip.zone

\* What a request found under the lock still holds when it writes.
StillDecided ==
  \A p \in Procs :
    /\ pc[p] \in {"save_write", "trip_write"} <=> lock = p
    /\ pc[p] \in {"read_window", "save_lock", "save_write"} => req[p] \in Save
    /\ pc[p] = "delete" => req[p] \in [id : ActIds]
    /\ pc[p] \in {"trip_lock", "trip_write"} => req[p] \in [window : Windows]
    /\ pc[p] = "save_write" => StillFits(p) /\ ~Submitted(p)
    /\ pc[p] = "trip_write" => trip # NoTrip /\ ~Excludes(req[p].window)

\* The inductive invariant behind ActivitiesFit.
Inv == TypeOK /\ StillDecided /\ ActivitiesFit

\* However often and however concurrently a submission is sent, its key stands
\* for one activity: every answer under it names the same one.
KeyGivesOneActivity == \A k \in Users \X Keys : Cardinality(answered[k]) <= 1

\* A submission is applied once: a retry, even one that raced its original,
\* never writes over what editors did to the activity since.
AppliedOnce ==
  [][\A p \in Procs :
       pc[p] \in {"save_lock", "save_write"} /\ pc'[p] = "idle" /\ Submitted(p)
       => act' = act]_vars

\* The pairs Conflicts lists are those that share an instant, each with what
\* they share.
InstantsOf(span) == {t \in Instants : span.from <= t /\ t < span.to}

ConflictsExact ==
  \A a, b \in Live : a < b =>
    LET shared == InstantsOf(act[a]) \intersect InstantsOf(act[b])
    IN IF shared = {} THEN \A c \in Conflicts : c[1] # a \/ c[2] # b
       ELSE \E c \in Conflicts : c[1] = a /\ c[2] = b /\ InstantsOf(c[3]) = shared

\* docs/backend/README.md:420 says to retry the same key and payload for the
\* same saved result, unless the saved activity was removed.  The window check
\* comes first, and the hash covers the zone the service filled in: once the
\* trip has moved, the retry is refused.
Resubmits(p) ==
  /\ pc[p] \in {"read_window", "save_lock"}
  /\ trip # NoTrip
  /\ Submitted(p)
  /\ LET plan == plans[Owned(p)]
     IN plan.live /\ <<plan.id, plan.from, plan.to>> = <<req[p].id, req[p].from, req[p].to>>

RetryGetsSavedResult ==
  [][\A p \in Procs : Resubmits(p) => ~RefuseWindow(p) /\ ~RefuseLocked(p)]_vars
=============================================================================
