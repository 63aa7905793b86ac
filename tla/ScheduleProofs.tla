---------------------------- MODULE ScheduleProofs ----------------------------
(***************************************************************************)
(* That saved activities stay inside their trip's window, in its zone, for *)
(* any calendar, any windows and any number of requests.                   *)
(***************************************************************************)
EXTENDS Schedule, FiniteSetTheorems, TLAPS

\* Every step other than a start, by its action.
LEMMA StepKinds ==
  ASSUME NEW p \in Procs, Step(p) \/ Abort(p)
  PROVE  \/ ReadWindow(p) \/ SaveLock(p) \/ Replay(p) \/ SaveWrite(p)
         \/ Delete(p) \/ TripLock(p) \/ TripWrite(p) \/ DeleteTrip(p)
         \/ (pc[p] # "idle" /\ Refuse(p))
BY DEF Step, Abort, RefuseWindow, RefuseLocked, RefuseWrite

\* A start only sets what one idle request carries.
LEMMA Starts ==
  ASSUME TypeOK, NEW p \in Procs, Start(p)
  PROVE  /\ pc[p] = "idle"
         /\ UNCHANGED <<table, lock>>
         /\ \/ \E r \in Save : r.from < r.to /\ req' = [req EXCEPT ![p] = r]
                               /\ pc' = [pc EXCEPT ![p] = "read_window"]
            \/ \E r \in [id : ActIds] : req' = [req EXCEPT ![p] = r]
                               /\ pc' = [pc EXCEPT ![p] = "delete"]
            \/ \E r \in [window : Windows] : req' = [req EXCEPT ![p] = r]
                               /\ pc' = [pc EXCEPT ![p] = "trip_lock"]
            \/ /\ req' = [req EXCEPT ![p] = Nothing]
               /\ pc' = [pc EXCEPT ![p] = "delete_trip"]
<1>1. CASE StartSave(p)
  <2>1. PICK u \in Users, i \in used \union {NoAct}, s \in Spans, k \in Keys \union {NoKey} :
          Begin(p, [user |-> u, id |-> i, from |-> s.from, to |-> s.to,
                    zone |-> NoZone, key |-> k], "read_window")
    BY <1>1 DEF StartSave
  <2>2. [user |-> u, id |-> i, from |-> s.from, to |-> s.to, zone |-> NoZone, key |-> k] \in Save
    BY SpansAssumption DEF Save, TypeOK
  <2>3. s.from < s.to
    BY SpansAssumption
  <2>. QED BY <2>1, <2>2, <2>3 DEF Begin
<1>2. CASE StartDelete(p)
  <2>1. PICK i \in used : Begin(p, [id |-> i], "delete")
    BY <1>2 DEF StartDelete
  <2>2. [id |-> i] \in [id : ActIds]
    BY DEF TypeOK
  <2>. QED BY <2>1, <2>2 DEF Begin
<1>3. CASE StartTripUpdate(p)
  BY <1>3 DEF StartTripUpdate, Begin
<1>4. CASE StartDeleteTrip(p)
  BY <1>4 DEF StartDeleteTrip, Begin
<1>. QED BY <1>1, <1>2, <1>3, <1>4 DEF Start

\* What COMMIT and ROLLBACK do to the request itself.
LEMMA Ends ==
  ASSUME TypeOK, NEW p \in Procs, Finish(p)
  PROVE  /\ lock' \in Procs \union {NoProc}
         /\ pc' \in [Procs -> Steps]
         /\ req' \in [Procs -> Requests]
         /\ pc'[p] = "idle"
         /\ lock' # p
         /\ lock # p => lock' = lock
         /\ \A q \in Procs \ {p} : pc'[q] = pc[q] /\ req'[q] = req[q] /\ (lock' = q <=> lock = q)
<1>1. Nothing \in Requests /\ "idle" \in Steps
  BY DEF Nothing, Requests, Steps
<1>2. NoProc \notin Procs
  BY NullsAssumption
<1>. QED BY <1>1, <1>2 DEF Finish, TypeOK

LEMMA TypedInit == Init => TypeOK
<1>1. Nothing \in Requests /\ "idle" \in Steps
  BY DEF Nothing, Requests, Steps
<1>. QED BY <1>1 DEF Init, TypeOK

LEMMA DecidedInit == Init => StillDecided /\ ActivitiesFit
BY NullsAssumption DEF Init, StillDecided, ActivitiesFit, Live

-----------------------------------------------------------------------------
(***************************************************************************)
(* Types.                                                                  *)
(***************************************************************************)
LEMMA TypedInductive == Inv /\ [Next]_vars => TypeOK'
<1>. SUFFICES ASSUME Inv, [Next]_vars PROVE TypeOK'
  OBVIOUS
<1>. USE DEF Inv
<1>1. CASE UNCHANGED vars
  BY <1>1 DEF vars, table, TypeOK
<1>2. ASSUME NEW p \in Procs, Start(p) PROVE TypeOK'
  <2>1. \A r \in Save \union [id : ActIds] \union [window : Windows] \union {Nothing} :
          r \in Requests
    BY DEF Requests, Nothing
  <2>2. {"read_window", "delete", "trip_lock", "delete_trip"} \subseteq Steps
    BY DEF Steps
  <2>. QED BY <1>2, Starts, <2>1, <2>2 DEF TypeOK, table
<1>3. ASSUME NEW p \in Procs, ReadWindow(p) PROVE TypeOK'
  <2>1. req[p] \in Save
    BY <1>3 DEF ReadWindow, StillDecided
  <2>2. trip.zone \in Zones
    BY <1>3, WindowsAssumption DEF ReadWindow, TypeOK
  <2>3. [req[p] EXCEPT !.zone = trip.zone] \in Requests
    BY <2>1, <2>2 DEF Save, Requests
  <2>4. "save_lock" \in Steps
    BY DEF Steps
  <2>. QED BY <1>3, <2>3, <2>4 DEF ReadWindow, TypeOK, table
<1>4. ASSUME NEW p \in Procs, SaveLock(p) PROVE TypeOK'
  BY <1>4 DEF SaveLock, Take, TypeOK, table, Steps
<1>5. ASSUME NEW p \in Procs, Replay(p) PROVE TypeOK'
  <2>1. req[p] \in Save /\ Owned(p) \in Users \X Keys /\ plans[Owned(p)] \in Plan
    BY <1>5 DEF Replay, Submitted, StillDecided, Owned, Save, TypeOK
  <2>2. answered' \in [Users \X Keys -> SUBSET ActIds]
    BY <1>5, <2>1 DEF Replay, TypeOK, Plan
  <2>. QED BY <1>5, <2>2, Ends DEF Replay, TypeOK
<1>6. ASSUME NEW p \in Procs, SaveWrite(p) PROVE TypeOK'
  <2>1. PICK i \in (IF req[p].id = NoAct THEN ActIds \ used ELSE {req[p].id} \intersect Live) :
          act' = [act EXCEPT ![i] = Saved(p)] /\ used' = used \union {i} /\ Record(p, i)
    BY <1>6 DEF SaveWrite
  <2>2. i \in ActIds
    BY <2>1 DEF Live
  <2>3. req[p] \in Save /\ trip \in Windows /\ req[p].zone = trip.zone
    BY <1>6 DEF SaveWrite, StillDecided, StillFits, TypeOK
  <2>4. req[p].zone \in Zones
    BY <2>3, WindowsAssumption
  <2>5. Saved(p) \in Activity
    BY <2>3, <2>4 DEF Saved, Save, Activity
  <2>6. plans' \in [Users \X Keys -> Plan \union {NoPlan}]
        /\ answered' \in [Users \X Keys -> SUBSET ActIds]
    <3>1. CASE req[p].key = NoKey
      BY <2>1, <3>1 DEF Record, TypeOK
    <3>2. CASE req[p].key # NoKey
      <4>1. Owned(p) \in Users \X Keys
        BY <2>3, <3>2 DEF Owned, Save
      <4>2. [id |-> req[p].id, from |-> req[p].from, to |-> req[p].to,
             zone |-> req[p].zone, made |-> i, live |-> TRUE] \in Plan
        BY <2>2, <2>3, <2>4 DEF Plan, Save
      <4>. HIDE DEF Inv
      <4>3. TypeOK /\ NullsAssumption
        BY NullsAssumption DEF Inv
      <4>4. plans' \in [Users \X Keys -> Plan \union {NoPlan}]
        BY <2>1, <3>2, <4>1, <4>2, <4>3 DEF Record, TypeOK
      <4>5. answered' \in [Users \X Keys -> SUBSET ActIds]
        BY <2>1, <2>2, <3>2, <4>1, <4>3 DEF Record, TypeOK
      <4>. QED BY <4>4, <4>5
    <3>. QED BY <3>1, <3>2
  <2>. QED BY <1>6, <2>1, <2>2, <2>5, <2>6, Ends DEF SaveWrite, TypeOK
<1>7. ASSUME NEW p \in Procs, Delete(p) PROVE TypeOK'
  <2>1. plans' \in [Users \X Keys -> Plan \union {NoPlan}]
    <3>1. ASSUME NEW k \in Users \X Keys, plans[k] # NoPlan
          PROVE  [plans[k] EXCEPT !.live = FALSE] \in Plan
      <4>1. plans[k] \in Plan
        BY <3>1 DEF TypeOK
      <4>. QED BY <4>1 DEF Plan
    <3>. QED BY <1>7, <3>1 DEF Delete, TypeOK
  <2>. QED BY <1>7, <2>1, Ends DEF Delete, TypeOK
<1>8. ASSUME NEW p \in Procs, TripLock(p) PROVE TypeOK'
  <2>1. "trip_write" \in Steps
    BY DEF Steps
  <2>. QED BY <1>8, <2>1, Ends DEF TripLock, Take, Refuse, TypeOK, table
<1>9. ASSUME NEW p \in Procs, TripWrite(p) PROVE TypeOK'
  <2>1. req[p].window \in Windows /\ trip' = req[p].window
    BY <1>9 DEF TripWrite, StillDecided
  <2>2. trip'.zone \in Zones
    BY <2>1, WindowsAssumption
  <2>3. \A a \in ActIds : act[a] # NoAct => [act[a] EXCEPT !.zone = trip'.zone] \in Activity
    BY <2>2 DEF TypeOK, Activity
  <2>. QED BY <1>9, <2>1, <2>3, Ends DEF TripWrite, TypeOK
<1>10. ASSUME NEW p \in Procs, DeleteTrip(p) PROVE TypeOK'
  BY <1>10, Ends DEF DeleteTrip, TypeOK
<1>11. ASSUME NEW p \in Procs, Refuse(p) PROVE TypeOK'
  BY <1>11, Ends DEF Refuse, TypeOK, table
<1>. QED
  BY <1>1, <1>2, <1>3, <1>4, <1>5, <1>6, <1>7, <1>8, <1>9, <1>10, <1>11, StepKinds DEF Next

-----------------------------------------------------------------------------
(***************************************************************************)
(* What a request found under the trip's lock still holds when it writes:  *)
(* others have to wait for the lock, and a deletion only removes.          *)
(***************************************************************************)

\* A request that another's step leaves alone keeps what it decided, given
\* that the trip stays, no activity appears and no submission of its own does.
DecidedFor(p) ==
  /\ pc[p] \in {"save_write", "trip_write"} <=> lock = p
  /\ pc[p] \in {"read_window", "save_lock", "save_write"} => req[p] \in Save
  /\ pc[p] = "delete" => req[p] \in [id : ActIds]
  /\ pc[p] \in {"trip_lock", "trip_write"} => req[p] \in [window : Windows]
  /\ pc[p] = "save_write" => StillFits(p) /\ ~Submitted(p)
  /\ pc[p] = "trip_write" => trip # NoTrip /\ ~Excludes(req[p].window)

LEMMA DecidedIsStillDecided == StillDecided <=> \A p \in Procs : DecidedFor(p)
BY DEF StillDecided, DecidedFor

LEMMA LeftAlone ==
  ASSUME TypeOK, NEW p \in Procs, DecidedFor(p),
         pc'[p] = pc[p], req'[p] = req[p], lock' = p <=> lock = p,
         lock = p => /\ trip' = trip
                     /\ \A a \in ActIds : act'[a] \in {act[a], NoAct}
                     /\ \A k \in Users \X Keys : plans[k] = NoPlan => plans'[k] = NoPlan
  PROVE  DecidedFor(p)'
<1>1. ASSUME pc[p] = "save_write" PROVE StillFits(p)' /\ ~Submitted(p)'
  <2>1. lock = p /\ StillFits(p) /\ ~Submitted(p) /\ req[p] \in Save
    BY <1>1 DEF DecidedFor
  <2>2. StillFits(p)'
    BY <2>1 DEF StillFits, Fits
  <2>3. req[p].key # NoKey => Owned(p) \in Users \X Keys
    BY <2>1 DEF Owned, Save
  <2>4. ~Submitted(p)'
    BY <2>1, <2>3 DEF Submitted, Owned
  <2>. QED BY <2>2, <2>4
<1>2. ASSUME pc[p] = "trip_write" PROVE trip' # NoTrip /\ ~Excludes(req[p].window)'
  <2>1. lock = p /\ trip # NoTrip /\ ~Excludes(req[p].window)
    BY <1>2 DEF DecidedFor
  <2>2. \A a \in ActIds : act'[a] # NoAct => act'[a] = act[a]
    BY <2>1
  <2>3. ~Excludes(req[p].window)'
    BY <2>1, <2>2 DEF Excludes, Live, Fits
  <2>. QED BY <2>1, <2>3
<1>. QED BY <1>1, <1>2 DEF DecidedFor

\* A request that has ended has decided nothing.
LEMMA Ended ==
  ASSUME NEW p \in Procs, pc'[p] = "idle", lock' # p
  PROVE  DecidedFor(p)'
BY DEF DecidedFor

LEMMA DecidedInductive == Inv /\ [Next]_vars => StillDecided'
<1>. SUFFICES ASSUME Inv, [Next]_vars, NEW q \in Procs PROVE DecidedFor(q)'
  BY DEF StillDecided, DecidedFor
<1>. DEFINE Kept == \A a \in ActIds : act'[a] \in {act[a], NoAct}
            Unsent == \A k \in Users \X Keys : plans[k] = NoPlan => plans'[k] = NoPlan
<1>0. TypeOK /\ DecidedFor(q) /\ \A p \in Procs : DecidedFor(p)
  BY DEF Inv, StillDecided, DecidedFor
<1>. HIDE DEF Inv
<1>1. CASE UNCHANGED vars
  BY <1>0, <1>1, LeftAlone DEF vars, table
<1>2. ASSUME NEW p \in Procs, Start(p) PROVE DecidedFor(q)'
  <2>1. CASE q # p
    <3>1. pc'[q] = pc[q] /\ req'[q] = req[q] /\ UNCHANGED <<table, lock>>
      BY <1>0, <1>2, <2>1, Starts DEF TypeOK
    <3>. QED BY <1>0, <3>1, LeftAlone DEF table
  <2>2. CASE q = p
    <3>1. lock' # q
      BY <1>0, <1>2, <2>2, Starts DEF DecidedFor, table
    <3>. QED BY <1>0, <1>2, <2>2, <3>1, Starts DEF DecidedFor, TypeOK
  <2>. QED BY <2>1, <2>2
<1>3. ASSUME NEW p \in Procs, ReadWindow(p) PROVE DecidedFor(q)'
  <2>1. CASE q # p
    <3>1. pc'[q] = pc[q] /\ req'[q] = req[q] /\ UNCHANGED <<table, lock>>
      BY <1>0, <1>3, <2>1 DEF ReadWindow, TypeOK
    <3>. QED BY <1>0, <3>1, LeftAlone DEF table
  <2>2. CASE q = p
    <3>1. req[p] \in Save /\ lock # p
      BY <1>0, <1>3 DEF ReadWindow, DecidedFor
    <3>2. trip.zone \in Zones
      BY <1>0, <1>3, WindowsAssumption DEF ReadWindow, TypeOK
    <3>3. req'[p] = [req[p] EXCEPT !.zone = trip.zone] /\ pc'[p] = "save_lock" /\ lock' = lock
      BY <1>0, <1>3 DEF ReadWindow, TypeOK
    <3>4. req'[p] \in Save
      BY <3>1, <3>2, <3>3 DEF Save
    <3>. QED BY <2>2, <3>1, <3>3, <3>4 DEF DecidedFor
  <2>. QED BY <2>1, <2>2
<1>4. ASSUME NEW p \in Procs, NEW step \in {"save_write", "trip_write"},
             lock = NoProc, Take(p, step),
             step = "save_write" => req[p] \in Save /\ StillFits(p) /\ ~Submitted(p),
             step = "trip_write" => /\ req[p] \in [window : Windows]
                                    /\ trip # NoTrip /\ ~Excludes(req[p].window)
      PROVE  DecidedFor(q)'
  <2>1. CASE q # p
    <3>1. pc'[q] = pc[q] /\ req'[q] = req[q] /\ UNCHANGED table /\ lock' # q /\ lock # q
      BY <1>0, <1>4, <2>1, NullsAssumption DEF Take, TypeOK
    <3>. QED BY <1>0, <3>1, LeftAlone DEF table
  <2>2. CASE q = p
    <3>1. pc'[p] = step /\ lock' = p /\ req' = req /\ UNCHANGED <<trip, act, plans>>
      BY <1>0, <1>4 DEF Take, TypeOK, table
    <3>2. StillFits(p)' = StillFits(p) /\ Submitted(p)' = Submitted(p)
          /\ Excludes(req[p].window)' = Excludes(req[p].window)
      BY <3>1 DEF StillFits, Fits, Submitted, Owned, Excludes, Live
    <3>. QED BY <1>4, <2>2, <3>1, <3>2 DEF DecidedFor
  <2>. QED BY <2>1, <2>2
<1>5. ASSUME NEW p \in Procs, SaveLock(p) PROVE DecidedFor(q)'
  <2>1. req[p] \in Save
    BY <1>0, <1>5 DEF SaveLock, DecidedFor
  <2>. QED BY <1>4, <1>5, <2>1 DEF SaveLock
<1>6. ASSUME NEW p \in Procs, TripLock(p), ~Refuse(p) PROVE DecidedFor(q)'
  <2>1. req[p] \in [window : Windows]
    BY <1>0, <1>6 DEF TripLock, DecidedFor
  <2>. QED BY <1>4, <1>6, <2>1 DEF TripLock
<1>7. ASSUME NEW p \in Procs, Finish(p),
             \A r \in Procs \ {p} : lock = r => trip' = trip /\ Kept /\ Unsent
      PROVE  DecidedFor(q)'
  <2>1. CASE q # p
    BY <1>0, <1>7, <2>1, Ends, LeftAlone
  <2>2. CASE q = p
    BY <1>0, <1>7, <2>2, Ends, Ended
  <2>. QED BY <2>1, <2>2
<1>8. ASSUME NEW p \in Procs, Refuse(p) PROVE DecidedFor(q)'
  BY <1>0, <1>7, <1>8 DEF Refuse, table
<1>9. ASSUME NEW p \in Procs, Replay(p) PROVE DecidedFor(q)'
  BY <1>7, <1>9 DEF Replay
<1>10. ASSUME NEW p \in Procs, SaveWrite(p) PROVE DecidedFor(q)'
  <2>1. lock = p
    BY <1>0, <1>10 DEF SaveWrite, DecidedFor
  <2>. QED BY <1>7, <1>10, <2>1 DEF SaveWrite
<1>11. ASSUME NEW p \in Procs, Delete(p) PROVE DecidedFor(q)'
  <2>1. trip' = trip /\ Kept /\ Unsent
    BY <1>0, <1>11 DEF Delete, TypeOK
  <2>. QED BY <1>7, <1>11, <2>1 DEF Delete
<1>12. ASSUME NEW p \in Procs, TripWrite(p) PROVE DecidedFor(q)'
  <2>1. lock = p
    BY <1>0, <1>12 DEF TripWrite, DecidedFor
  <2>. QED BY <1>7, <1>12, <2>1 DEF TripWrite
<1>13. ASSUME NEW p \in Procs, DeleteTrip(p) PROVE DecidedFor(q)'
  <2>1. \A r \in Procs : lock # r
    BY <1>13, NullsAssumption DEF DeleteTrip
  <2>. QED BY <1>7, <1>13, <2>1 DEF DeleteTrip
<1>. QED
  BY <1>1, <1>2, <1>3, <1>5, <1>6, <1>8, <1>9, <1>10, <1>11, <1>12, <1>13, StepKinds DEF Next

-----------------------------------------------------------------------------
(***************************************************************************)
(* The activities.                                                         *)
(***************************************************************************)
LEMMA FitInductive == Inv /\ [Next]_vars => ActivitiesFit'
<1>. SUFFICES ASSUME Inv, [Next]_vars PROVE ActivitiesFit'
  OBVIOUS
<1>0. TypeOK /\ ActivitiesFit /\ \A p \in Procs : DecidedFor(p)
  BY DEF Inv, StillDecided, DecidedFor
<1>. HIDE DEF Inv
<1>1. ASSUME trip' = trip, \A a \in ActIds : act'[a] \in {act[a], NoAct}
      PROVE  ActivitiesFit'
  BY <1>0, <1>1 DEF ActivitiesFit, Live, Fits
<1>2. ASSUME NEW p \in Procs, SaveWrite(p) PROVE ActivitiesFit'
  <2>1. StillFits(p) /\ req[p] \in Save
    BY <1>0, <1>2 DEF SaveWrite, DecidedFor
  <2>2. PICK i \in ActIds : act' = [act EXCEPT ![i] = Saved(p)]
    BY <1>2 DEF SaveWrite, Live
  <2>3. trip # NoTrip /\ trip' = trip /\ Fits(Saved(p), trip) /\ Saved(p).zone = trip.zone
    BY <1>2, <2>1 DEF SaveWrite, StillFits, Saved, Fits
  <2>4. ASSUME NEW a \in ActIds, act'[a] # NoAct
        PROVE  Fits(act'[a], trip) /\ act'[a].zone = trip.zone
    <3>1. CASE a = i
      BY <1>0, <2>2, <2>3, <3>1 DEF TypeOK
    <3>2. CASE a # i
      BY <1>0, <2>2, <2>4, <3>2 DEF TypeOK, ActivitiesFit, Live
    <3>. QED BY <3>1, <3>2
  <2>. QED BY <2>3, <2>4 DEF ActivitiesFit, Live, Fits
<1>3. ASSUME NEW p \in Procs, TripWrite(p) PROVE ActivitiesFit'
  <2>1. ~Excludes(trip') /\ trip' \in Windows
    BY <1>0, <1>3 DEF TripWrite, DecidedFor
  <2>2. ASSUME NEW a \in ActIds, act'[a] # NoAct
        PROVE  Fits(act'[a], trip') /\ act'[a].zone = trip'.zone
    <3>1. act[a] \in Activity /\ act'[a] = [act[a] EXCEPT !.zone = trip'.zone]
      BY <1>0, <1>3, <2>2 DEF TripWrite, TypeOK
    <3>2. act'[a].from = act[a].from /\ act'[a].to = act[a].to /\ act'[a].zone = trip'.zone
      BY <3>1 DEF Activity
    <3>3. Fits(act[a], trip')
      BY <1>0, <2>1, <3>1, NoPlanAssumption DEF Excludes, Live
    <3>. QED BY <3>2, <3>3 DEF Fits
  <2>. QED BY <2>1, <2>2, NullsAssumption DEF ActivitiesFit, Live, Fits
<1>4. ASSUME NEW p \in Procs, DeleteTrip(p) PROVE ActivitiesFit'
  BY <1>4 DEF DeleteTrip, ActivitiesFit, Live
<1>5. ASSUME NEW p \in Procs, Delete(p) PROVE ActivitiesFit'
  <2>1. \A a \in ActIds : act'[a] \in {act[a], NoAct}
    BY <1>0, <1>5 DEF Delete, TypeOK
  <2>. QED BY <1>1, <1>5, <2>1 DEF Delete
<1>6. ASSUME NEW p \in Procs,
             Start(p) \/ ReadWindow(p) \/ SaveLock(p) \/ Replay(p) \/ TripLock(p) \/ Refuse(p)
      PROVE  ActivitiesFit'
  <2>1. UNCHANGED <<trip, act>>
    BY <1>0, <1>6, Starts DEF ReadWindow, SaveLock, Replay, TripLock, Refuse, Take, table
  <2>. QED BY <1>1, <2>1
<1>7. CASE UNCHANGED vars
  BY <1>1, <1>7 DEF vars, table
<1>. QED
  BY <1>2, <1>3, <1>4, <1>5, <1>6, <1>7, StepKinds DEF Next

-----------------------------------------------------------------------------
LEMMA Invariant == Spec => []Inv
<1>1. Init => Inv
  BY TypedInit, DecidedInit DEF Inv
<1>2. Inv /\ [Next]_vars => Inv'
  BY TypedInductive, DecidedInductive, FitInductive DEF Inv
<1>. QED BY <1>1, <1>2, PTL DEF Spec

\* Every row, lock and request of the itinerary keeps its type.
THEOREM ScheduleTyped == Spec => []TypeOK
<1>1. Inv => TypeOK
  BY DEF Inv
<1>. QED BY <1>1, Invariant, PTL

\* Every saved activity lies inside its trip's window and carries its zone,
\* for any zones, windows, activities and number of concurrent requests: the
\* second check under the trip's lock is what makes the first one harmless.
THEOREM ActivitiesAlwaysFit == Spec => []ActivitiesFit
<1>1. Inv => ActivitiesFit
  BY DEF Inv
<1>. QED BY <1>1, Invariant, PTL

-----------------------------------------------------------------------------
(***************************************************************************)
(* Submission keys.                                                        *)
(***************************************************************************)

\* While there is a trip, whatever was answered under a key is what its saved
\* submission made.  The trip's deletion removes the submission, and no save
\* gets past the window check after it.
OneAnswer ==
  \A k \in Users \X Keys :
    /\ \A a, b \in answered[k] : a = b
    /\ trip # NoTrip => \A a \in answered[k] : plans[k] # NoPlan /\ plans[k].made = a

LEMMA OneAnswerInductive == Inv /\ OneAnswer /\ [Next]_vars => OneAnswer'
<1>. SUFFICES ASSUME Inv, OneAnswer, [Next]_vars PROVE OneAnswer'
  OBVIOUS
<1>0. TypeOK /\ \A p \in Procs : DecidedFor(p)
  BY DEF Inv, StillDecided, DecidedFor
<1>. HIDE DEF Inv
<1>1. ASSUME UNCHANGED <<plans, answered>>, trip = NoTrip => trip' = NoTrip
      PROVE  OneAnswer'
  BY <1>1 DEF OneAnswer
<1>2. ASSUME NEW p \in Procs, Replay(p) PROVE OneAnswer'
  <2>. DEFINE o == Owned(p)
  <2>1. req[p] \in Save /\ trip # NoTrip /\ plans[o] # NoPlan
    BY <1>0, <1>2 DEF Replay, StillFits, Submitted, DecidedFor
  <2>2. o \in Users \X Keys
    BY <1>2, <2>1 DEF Replay, Submitted, Owned, Save
  <2>3. answered' = [answered EXCEPT ![o] = @ \union {plans[o].made}] /\ plans' = plans
    BY <1>2 DEF Replay
  <2>. HIDE DEF o
  <2>. QED BY <1>0, <2>1, <2>2, <2>3 DEF OneAnswer, TypeOK
<1>3. ASSUME NEW p \in Procs, SaveWrite(p) PROVE OneAnswer'
  <2>. DEFINE o == Owned(p)
  <2>1. req[p] \in Save /\ trip # NoTrip /\ ~Submitted(p) /\ trip' = trip
    BY <1>0, <1>3 DEF SaveWrite, StillFits, DecidedFor
  <2>2. PICK i \in ActIds : Record(p, i)
    BY <1>3 DEF SaveWrite, Live
  <2>3. CASE req[p].key = NoKey
    BY <1>1, <2>1, <2>2, <2>3 DEF Record
  <2>4. CASE req[p].key # NoKey
    <3>1. o \in Users \X Keys /\ plans[o] = NoPlan
      BY <2>1, <2>4 DEF Submitted, Owned, Save
    <3>2. answered[o] = {}
      BY <2>1, <3>1 DEF OneAnswer
    <3>. DEFINE new == [id |-> req[p].id, from |-> req[p].from, to |-> req[p].to,
                        zone |-> req[p].zone, made |-> i, live |-> TRUE]
    <3>3. new \in Plan /\ new.made = i
      <4>1. i \in ActIds /\ req[p].zone \in Zones
        BY <2>1, <2>2, WindowsAssumption, <1>0, <1>3 DEF SaveWrite, StillFits, TypeOK, DecidedFor
      <4>. QED BY <2>1, <4>1 DEF Save, Plan
    <3>4. plans' = [plans EXCEPT ![o] = new] /\ answered' = [answered EXCEPT ![o] = @ \union {i}]
      BY <2>2, <2>4 DEF Record
    <3>. HIDE DEF new, o
    <3>5. plans'[o] = new /\ answered'[o] = {i}
      BY <1>0, <3>1, <3>2, <3>4 DEF TypeOK
    <3>6. \A k \in (Users \X Keys) \ {o} : plans'[k] = plans[k] /\ answered'[k] = answered[k]
      BY <1>0, <3>4 DEF TypeOK
    <3>. QED BY <2>1, <3>3, <3>5, <3>6, NoPlanAssumption DEF OneAnswer
  <2>. QED BY <2>3, <2>4
<1>4. ASSUME NEW p \in Procs, Delete(p) PROVE OneAnswer'
  <2>1. \A k \in Users \X Keys : plans[k] # NoPlan =>
          plans'[k] # NoPlan /\ plans'[k].made = plans[k].made
    <3>1. ASSUME NEW k \in Users \X Keys, plans[k] # NoPlan
          PROVE  LET off == [plans[k] EXCEPT !.live = FALSE]
                 IN off \in Plan /\ off.made = plans[k].made
      BY <1>0, <3>1 DEF TypeOK, Plan
    <3>. QED BY <1>4, <3>1, NoPlanAssumption DEF Delete
  <2>. QED BY <1>4, <2>1 DEF Delete, OneAnswer
<1>5. ASSUME NEW p \in Procs, TripWrite(p) PROVE OneAnswer'
  BY <1>0, <1>1, <1>5 DEF TripWrite, DecidedFor
<1>6. ASSUME NEW p \in Procs, DeleteTrip(p) PROVE OneAnswer'
  BY <1>6 DEF DeleteTrip, OneAnswer
<1>7. ASSUME NEW p \in Procs,
             Start(p) \/ ReadWindow(p) \/ SaveLock(p) \/ TripLock(p) \/ Refuse(p)
      PROVE  OneAnswer'
  BY <1>0, <1>1, <1>7, Starts DEF ReadWindow, SaveLock, TripLock, Refuse, Take, table
<1>8. CASE UNCHANGED vars
  BY <1>1, <1>8 DEF vars, table
<1>. QED
  BY <1>2, <1>3, <1>4, <1>5, <1>6, <1>7, <1>8, StepKinds DEF Next

LEMMA AtMostOne ==
  ASSUME NEW S, \A a, b \in S : a = b
  PROVE  Cardinality(S) <= 1
<1>1. CASE S = {}
  BY <1>1, FS_EmptySet
<1>2. CASE S # {}
  <2>1. PICK a : a \in S
    BY <1>2
  <2>2. S = {a}
    BY <2>1
  <2>. QED BY <2>2, FS_Singleton
<1>. QED BY <1>1, <1>2

\* A submission key stands for one activity: however often it is sent and
\* whatever the editors do meanwhile, every answer under it names the same one.
THEOREM OneActivityPerKey == Spec => []KeyGivesOneActivity
<1>1. Init => OneAnswer
  BY DEF Init, OneAnswer
<1>2. OneAnswer => KeyGivesOneActivity
  BY AtMostOne DEF OneAnswer, KeyGivesOneActivity
<1>. QED BY <1>1, <1>2, Invariant, OneAnswerInductive, PTL DEF Spec

\* A retry never writes: the submission is looked up under the trip's lock,
\* and while a save waits to write nobody else can submit its key.
THEOREM AppliesOnce == Spec => AppliedOnce
<1>. DEFINE A == \A p \in Procs :
       pc[p] \in {"save_lock", "save_write"} /\ pc'[p] = "idle" /\ Submitted(p) => act' = act
<1>1. Inv /\ [Next]_vars => [A]_vars
  <2>. SUFFICES ASSUME TypeOK, Next, NEW p \in Procs,
                       pc[p] \in {"save_lock", "save_write"}, pc'[p] = "idle", Submitted(p)
                PROVE  act' = act
    BY DEF Inv
  <2>1. PICK q \in Procs : Start(q) \/ Step(q) \/ Abort(q)
    BY DEF Next
  <2>2. CASE Start(q)
    BY <2>2, Starts DEF table
  <2>3. CASE Step(q) \/ Abort(q)
    <3>1. q = p
      BY <2>3, StepKinds, Ends DEF TypeOK, ReadWindow, SaveLock, Replay, SaveWrite, Delete,
           TripLock, TripWrite, DeleteTrip, Refuse, Take
    <3>. QED
      BY <2>3, <3>1, StepKinds DEF TypeOK, ReadWindow, SaveLock, Replay, SaveWrite, Delete,
           TripLock, TripWrite, DeleteTrip, Refuse, Take, table
  <2>. QED BY <2>1, <2>2, <2>3
<1>. QED BY <1>1, Invariant, PTL DEF Spec, AppliedOnce

-----------------------------------------------------------------------------
(***************************************************************************)
(* The conflict listing.                                                   *)
(***************************************************************************)

\* Activities, and those about to be saved, end after they begin.
Ordered ==
  /\ \A a \in Live : act[a].from < act[a].to
  /\ \A p \in Procs : pc[p] \in {"read_window", "save_lock", "save_write"}
                        => req[p].from < req[p].to

LEMMA OrderedInductive == Inv /\ Ordered /\ [Next]_vars => Ordered'
<1>. SUFFICES ASSUME Inv, Ordered, [Next]_vars PROVE Ordered'
  OBVIOUS
<1>0. TypeOK /\ \A p \in Procs : DecidedFor(p)
  BY DEF Inv, StillDecided, DecidedFor
<1>. HIDE DEF Inv
<1>. DEFINE Saves == {"read_window", "save_lock", "save_write"}
            Kept == \A a \in ActIds : act'[a] # NoAct =>
                      act[a] # NoAct /\ act'[a].from = act[a].from /\ act'[a].to = act[a].to
            Spanned(p) == pc'[p] \in Saves => req'[p].from < req'[p].to
<1>1. ASSUME act' = act PROVE Kept
  BY <1>1
<1>2. ASSUME NEW p \in Procs, Finish(p), Kept PROVE Ordered'
  BY <1>0, <1>2, Ends DEF Ordered, Live
<1>3. ASSUME NEW p \in Procs, Spanned(p), act' = act,
             \A q \in Procs \ {p} : pc'[q] = pc[q] /\ req'[q] = req[q]
      PROVE  Ordered'
  BY <1>3 DEF Ordered, Live
<1>4. ASSUME NEW p \in Procs, Start(p) PROVE Ordered'
  <2>1. Spanned(p)
    BY <1>0, <1>4, Starts DEF TypeOK
  <2>2. \A q \in Procs \ {p} : pc'[q] = pc[q] /\ req'[q] = req[q]
    BY <1>0, <1>4, Starts DEF TypeOK
  <2>3. act' = act
    BY <1>0, <1>4, Starts DEF table
  <2>. QED BY <1>3, <2>1, <2>2, <2>3
<1>5. ASSUME NEW p \in Procs, ReadWindow(p) PROVE Ordered'
  <2>1. req[p] \in Save
    BY <1>0, <1>5 DEF ReadWindow, DecidedFor
  <2>2. req'[p] = [req[p] EXCEPT !.zone = trip.zone]
    BY <1>0, <1>5 DEF ReadWindow, TypeOK
  <2>3. req'[p].from = req[p].from /\ req'[p].to = req[p].to
    BY <2>1, <2>2 DEF Save
  <2>4. Spanned(p)
    BY <1>5, <2>3 DEF Ordered, ReadWindow
  <2>5. \A q \in Procs \ {p} : pc'[q] = pc[q] /\ req'[q] = req[q]
    BY <1>0, <1>5 DEF ReadWindow, TypeOK
  <2>. QED BY <1>3, <1>5, <2>4, <2>5 DEF ReadWindow, table
<1>6. ASSUME NEW p \in Procs, NEW step, Take(p, step), step \in Saves => pc[p] \in Saves
      PROVE  Ordered'
  <2>1. Spanned(p)
    BY <1>0, <1>6 DEF Take, Ordered, TypeOK
  <2>2. \A q \in Procs \ {p} : pc'[q] = pc[q] /\ req'[q] = req[q]
    BY <1>0, <1>6 DEF Take, TypeOK
  <2>. QED BY <1>3, <1>6, <2>1, <2>2 DEF Take, table
<1>7. ASSUME NEW p \in Procs, SaveLock(p) PROVE Ordered'
  BY <1>6, <1>7 DEF SaveLock
<1>8. ASSUME NEW p \in Procs, Refuse(p) PROVE Ordered'
  BY <1>1, <1>2, <1>8 DEF Refuse, table
<1>9. ASSUME NEW p \in Procs, TripLock(p) PROVE Ordered'
  BY <1>6, <1>8, <1>9 DEF TripLock
<1>10. ASSUME NEW p \in Procs, Replay(p) PROVE Ordered'
  BY <1>1, <1>2, <1>10 DEF Replay
<1>11. ASSUME NEW p \in Procs, SaveWrite(p) PROVE Ordered'
  <2>1. PICK i \in ActIds : act' = [act EXCEPT ![i] = Saved(p)]
    BY <1>11 DEF SaveWrite, Live
  <2>2. Saved(p).from < Saved(p).to
    BY <1>11 DEF SaveWrite, Saved, Ordered
  <2>3. \A a \in ActIds : act'[a] # NoAct => act'[a].from < act'[a].to
    BY <1>0, <2>1, <2>2 DEF Ordered, Live, TypeOK
  <2>. QED BY <1>0, <1>11, <2>3, Ends DEF SaveWrite, Ordered, Live
<1>12. ASSUME NEW p \in Procs, Delete(p) PROVE Ordered'
  <2>1. Kept
    BY <1>0, <1>12 DEF Delete, TypeOK
  <2>. QED BY <1>2, <1>12, <2>1 DEF Delete
<1>13. ASSUME NEW p \in Procs, TripWrite(p) PROVE Ordered'
  <2>1. \A a \in ActIds : act[a] # NoAct => act[a] \in Activity
    BY <1>0 DEF TypeOK
  <2>2. Kept
    BY <1>13, <2>1 DEF TripWrite, Activity
  <2>. QED BY <1>2, <1>13, <2>2 DEF TripWrite
<1>14. ASSUME NEW p \in Procs, DeleteTrip(p) PROVE Ordered'
  BY <1>2, <1>14 DEF DeleteTrip
<1>15. CASE UNCHANGED vars
  BY <1>15 DEF vars, table, Ordered, Live
<1>. QED
  BY <1>4, <1>5, <1>7, <1>8, <1>9, <1>10, <1>11, <1>12, <1>13, <1>14, <1>15, StepKinds DEF Next

\* Two intervals share an instant exactly when each begins before the other
\* ends, and then what they share is from the later beginning to the earlier end.
LEMMA ListedShares ==
  ASSUME TypeOK, Ordered, NEW a \in Live, NEW b \in Live
  PROVE  LET shared == InstantsOf(act[a]) \intersect InstantsOf(act[b])
         IN /\ Listed(a, b) <=> shared # {}
            /\ InstantsOf(Overlap(a, b)) = shared
<1>1. act[a] \in Activity /\ act[b] \in Activity
  BY DEF Live, TypeOK
<1>. DEFINE af == act[a].from  at == act[a].to  bf == act[b].from  bt == act[b].to
            oaf == Overlap(a, b).from  oat == Overlap(a, b).to
<1>2. af \in Instants /\ at \in Instants /\ bf \in Instants /\ bt \in Instants
  BY <1>1 DEF Activity
<1>3. af \in Nat /\ at \in Nat /\ bf \in Nat /\ bt \in Nat /\ \A t \in Instants : t \in Nat
  BY <1>2, InstantsAssumption
<1>4. af < at /\ bf < bt
  BY DEF Ordered
<1>5. /\ oaf = IF af > bf THEN af ELSE bf
      /\ oat = IF at < bt THEN at ELSE bt
  BY DEF Overlap
<1>6. Listed(a, b) <=> af < bt /\ bf < at
  BY DEF Listed
<1>7. /\ InstantsOf(act[a]) = {t \in Instants : af <= t /\ t < at}
      /\ InstantsOf(act[b]) = {t \in Instants : bf <= t /\ t < bt}
      /\ InstantsOf(Overlap(a, b)) = {t \in Instants : oaf <= t /\ t < oat}
  BY DEF InstantsOf
<1>. HIDE DEF af, at, bf, bt, oaf, oat
<1>8. ASSUME Listed(a, b)
      PROVE  oaf \in InstantsOf(act[a]) \intersect InstantsOf(act[b])
  BY <1>2, <1>3, <1>4, <1>5, <1>6, <1>7, <1>8
<1>9. ASSUME NEW t \in InstantsOf(act[a]) \intersect InstantsOf(act[b]) PROVE Listed(a, b)
  BY <1>3, <1>6, <1>7, <1>9
<1>10. ASSUME NEW t \in Instants
       PROVE  t \in InstantsOf(Overlap(a, b)) <=> t \in InstantsOf(act[a]) /\ t \in InstantsOf(act[b])
  BY <1>3, <1>5, <1>7, <1>10
<1>11. InstantsOf(Overlap(a, b)) = InstantsOf(act[a]) \intersect InstantsOf(act[b])
  BY <1>7, <1>10
<1>. QED BY <1>8, <1>9, <1>11

\* The conflict listing has a row for a pair of activities exactly when they
\* share an instant, and the row says what they share.
THEOREM ListingExact == Spec => []ConflictsExact
<1>1. Init => Ordered
  BY DEF Init, Ordered, Live
<1>2. TypeOK /\ Ordered => ConflictsExact
  <2>. SUFFICES ASSUME TypeOK, Ordered, NEW a \in Live, NEW b \in Live, a < b
                PROVE  LET shared == InstantsOf(act[a]) \intersect InstantsOf(act[b])
                       IN IF shared = {} THEN \A c \in Conflicts : c[1] # a \/ c[2] # b
                          ELSE \E c \in Conflicts : c[1] = a /\ c[2] = b
                                                      /\ InstantsOf(c[3]) = shared
    BY DEF ConflictsExact
  <2>. DEFINE shared == InstantsOf(act[a]) \intersect InstantsOf(act[b])
  <2>1. (Listed(a, b) <=> shared # {}) /\ InstantsOf(Overlap(a, b)) = shared
    BY ListedShares
  <2>. HIDE DEF shared
  <2>2. ASSUME NEW c \in Conflicts, c[1] = a, c[2] = b PROVE Listed(a, b)
    BY <2>2 DEF Conflicts
  <2>3. ASSUME Listed(a, b) PROVE <<a, b, Overlap(a, b)>> \in Conflicts
    <3>1. <<a, b>> \in {pair \in Live \X Live : pair[1] < pair[2] /\ Listed(pair[1], pair[2])}
      BY <2>3
    <3>. QED BY <3>1 DEF Conflicts
  <2>4. CASE shared = {}
    BY <2>1, <2>2, <2>4 DEF shared
  <2>5. CASE shared # {}
    <3>. DEFINE c == <<a, b, Overlap(a, b)>>
    <3>1. c \in Conflicts /\ c[1] = a /\ c[2] = b /\ InstantsOf(c[3]) = shared
      BY <2>1, <2>3, <2>5
    <3>. QED BY <3>1, <2>5 DEF shared
  <2>. QED BY <2>4, <2>5
<1>3. Inv => TypeOK
  BY DEF Inv
<1>. QED BY <1>1, <1>2, <1>3, Invariant, OrderedInductive, PTL DEF Spec
=============================================================================
