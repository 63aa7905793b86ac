------------------------------ MODULE PrepProofs ------------------------------
(***************************************************************************)
(* That no interleaving of Prep requests meets a constraint of prep_tasks, *)
(* for any number of users, tasks and requests.                            *)
(***************************************************************************)
EXTENDS Prep, TLAPS

LEMMA NothingIsRequest == Nothing \in Request
BY DEF Nothing, Request, Kinds

\* Every way a request can begin.
LEMMA Starts ==
  ASSUME Inv, NEW p \in Procs, Start(p)
  PROVE  \E r \in Request, step \in Steps :
           /\ Begin(p, r, step)
           /\ r.user \in Users
           /\ step \notin {"idle", "create_write", "tick"}
           /\ step = "create_read" => (r.kind = "everyone" => r.who = NoUser)
           /\ step # "create_read" => r.task \in used
<1>. USE DEF Nothing, Request, Steps, Kinds, Inv, TypeOK
<1>1. CASE StartCreate(p)
  <2>1. PICK u \in Users, k \in Kinds, w \in Users \union {NoUser}, d \in Dates \union {NoDate} :
          /\ k = "everyone" => w = NoUser
          /\ Begin(p, [Nothing EXCEPT !.user = u, !.kind = k, !.who = w, !.date = d], "create_read")
    BY <1>1 DEF StartCreate
  <2>2. [Nothing EXCEPT !.user = u, !.kind = k, !.who = w, !.date = d] \in Request
    OBVIOUS
  <2>. QED BY <2>1, <2>2
<1>2. CASE StartUpdate(p)
  <2>1. PICK u \in Users, t \in used, d \in Dates \union {NoDate} :
          Begin(p, [Nothing EXCEPT !.user = u, !.task = t, !.date = d], "update_read")
    BY <1>2 DEF StartUpdate
  <2>2. [Nothing EXCEPT !.user = u, !.task = t, !.date = d] \in Request
    OBVIOUS
  <2>. QED BY <2>1, <2>2
<1>3. CASE StartDelete(p)
  <2>1. PICK u \in Users, t \in used :
          Begin(p, [Nothing EXCEPT !.user = u, !.task = t], "delete")
    BY <1>3 DEF StartDelete
  <2>2. [Nothing EXCEPT !.user = u, !.task = t] \in Request
    OBVIOUS
  <2>. QED BY <2>1, <2>2
<1>4. CASE StartAssign(p)
  <2>1. PICK u \in Users, t \in used, w \in Users \union {NoUser} :
          Begin(p, [Nothing EXCEPT !.user = u, !.task = t, !.who = w], "assign_read")
    BY <1>4 DEF StartAssign
  <2>2. [Nothing EXCEPT !.user = u, !.task = t, !.who = w] \in Request
    OBVIOUS
  <2>. QED BY <2>1, <2>2
<1>5. ASSUME NEW step \in {"claim_read", "drop", "complete", "reopen_role"}, StartOwn(p, step)
      PROVE  \E r \in Request : Begin(p, r, step) /\ r.user \in Users /\ r.task \in used
  <2>1. PICK u \in TakingPart, t \in used :
          Begin(p, [Nothing EXCEPT !.user = u, !.task = t], step)
    BY <1>5 DEF StartOwn
  <2>2. u \in Users /\ [Nothing EXCEPT !.user = u, !.task = t] \in Request
    BY DEF TakingPart
  <2>. QED BY <2>1, <2>2
<1>6. CASE StartClaim(p) \/ StartDrop(p) \/ StartComplete(p) \/ StartReopen(p)
  BY <1>5, <1>6 DEF StartClaim, StartDrop, StartComplete, StartReopen
<1>. QED BY <1>1, <1>2, <1>3, <1>4, <1>6 DEF Start

-----------------------------------------------------------------------------
(***************************************************************************)
(* Steps by what they change.                                              *)
(***************************************************************************)

\* A request that goes on, and writes nothing, keeps the invariant when what
\* it carries fits its next step.
LEMMA GoesOn ==
  ASSUME Inv, NEW p \in Procs, NEW r \in Request, NEW step \in Steps,
         req' = [req EXCEPT ![p] = r], pc' = [pc EXCEPT ![p] = step],
         UNCHANGED <<table, trip>>,
         r.user \in Users,
         step \notin {"create_read", "create_write"} => r.task \in used,
         step \in {"create_read", "create_write"} /\ r.kind = "everyone" => r.who = NoUser,
         step = "tick" /\ Exists(r.task) => tasks[r.task].kind = "everyone"
  PROVE  Inv'
<1>1. TypeOK'
  BY DEF Inv, TypeOK, table, trip
<1>2. RequestsFit'
  <2>1. \A t \in TaskIds : Exists(t)' => t \in used'
    BY DEF Inv, RequestsFit, Exists, table
  <2>2. ASSUME NEW q \in Procs
        PROVE  /\ pc'[q] # "idle" => req'[q].user \in Users
               /\ pc'[q] \notin {"idle", "create_read", "create_write"} => req'[q].task \in used
               /\ pc'[q] \in {"create_read", "create_write"} /\ req'[q].kind = "everyone" =>
                    req'[q].who = NoUser
               /\ pc'[q] = "tick" /\ Exists(req'[q].task) => tasks[req'[q].task].kind = "everyone"
    <3>1. CASE q = p
      BY <3>1 DEF Inv, TypeOK
    <3>2. CASE q # p
      <4>1. pc'[q] = pc[q] /\ req'[q] = req[q]
        BY <3>2 DEF Inv, TypeOK
      <4>. QED BY <4>1 DEF Inv, RequestsFit
    <3>. QED BY <3>1, <3>2
  <2>. QED BY <2>1, <2>2 DEF RequestsFit, Exists, table
<1>3. RowsConsistent'
  BY DEF Inv, RowsConsistent, Exists, table
<1>. QED BY <1>1, <1>2, <1>3 DEF Inv

\* A request that ends keeps types and requests fitting when no id is used
\* twice and no task changes its kind.
LEMMA Ends ==
  ASSUME Inv, NEW p \in Procs, Finish(p),
         tasks' \in [TaskIds -> Task \union {NoTask}],
         used \subseteq used', used' \subseteq TaskIds,
         \A t \in TaskIds : tasks'[t] # NoTask =>
           t \in used' /\ (t \in used => tasks[t] # NoTask /\ tasks'[t].kind = tasks[t].kind),
         ticks' \subseteq TaskIds \X Users,
         claimant' \in [TaskIds -> Users \union {NoUser}]
  PROVE  TypeOK' /\ RequestsFit'
<1>1. "idle" \in Steps
  BY DEF Steps
<1>2. TypeOK'
  BY <1>1, NothingIsRequest DEF Inv, TypeOK, Finish, trip
<1>3. ASSUME NEW q \in Procs
      PROVE  /\ pc'[q] # "idle" => req'[q].user \in Users
             /\ pc'[q] \notin {"idle", "create_read", "create_write"} => req'[q].task \in used'
             /\ pc'[q] \in {"create_read", "create_write"} /\ req'[q].kind = "everyone" =>
                  req'[q].who = NoUser
             /\ pc'[q] = "tick" /\ tasks'[req'[q].task] # NoTask => tasks'[req'[q].task].kind = "everyone"
  <2>1. CASE q = p
    BY <2>1 DEF Finish, Inv, TypeOK
  <2>2. CASE q # p
    <3>1. pc'[q] = pc[q] /\ req'[q] = req[q]
      BY <2>2 DEF Finish, Inv, TypeOK
    <3>2. pc[q] = "tick" => req[q].task \in used /\ req[q].task \in TaskIds
      BY DEF Inv, TypeOK, RequestsFit
    <3>. QED BY <3>1, <3>2 DEF Inv, RequestsFit, Exists
  <2>. QED BY <2>1, <2>2
<1>4. RequestsFit'
  BY <1>3 DEF RequestsFit, Exists
<1>. QED BY <1>2, <1>4

\* The request ends without having written.
LEMMA Stops ==
  ASSUME Inv, NEW p \in Procs, Stop(p)
  PROVE  Inv'
<1>1. UNCHANGED table /\ Finish(p)
  BY DEF Stop
<1>2. TypeOK' /\ RequestsFit'
  <2>1. \A t \in TaskIds : tasks[t] # NoTask => t \in used
    BY DEF Inv, RequestsFit, Exists
  <2>. QED BY <1>1, <2>1, Ends DEF Inv, TypeOK, table
<1>3. RowsConsistent'
  BY <1>1 DEF Inv, RowsConsistent, Exists, table
<1>. QED BY <1>2, <1>3 DEF Inv

RowFits(row) ==
  /\ row.kind = "everyone" => row.assignee = NoUser /\ ~row.done
  /\ row.done => row.assignee # NoUser

\* A statement that rewrites an existing row, keeping its kind, keeps the
\* invariant if the constraints allow the row.
LEMMA Rewrites ==
  ASSUME Inv, NEW p \in Procs, NEW condition \in BOOLEAN, NEW row,
         pc[p] \notin {"idle", "create_read", "create_write"},
         tasks' = IF condition THEN [tasks EXCEPT ![req[p].task] = row] ELSE tasks,
         Finish(p), UNCHANGED <<used, ticks>>,
         claimant' \in [TaskIds -> Users \union {NoUser}],
         condition => /\ Exists(req[p].task)
                      /\ row \in Task /\ row.kind = Row(p).kind
                      /\ RowFits(row)
  PROVE  Inv'
<1>1. req[p].task \in TaskIds /\ req[p].task \in used
  BY DEF Inv, TypeOK, RequestsFit
<1>2. tasks' \in [TaskIds -> Task \union {NoTask}]
  BY <1>1 DEF Inv, TypeOK
<1>3. ASSUME NEW t \in TaskIds, tasks'[t] # NoTask
      PROVE  tasks[t] # NoTask /\ tasks'[t].kind = tasks[t].kind
             /\ (tasks'[t] = tasks[t] \/ RowFits(tasks'[t]))
  BY <1>1, <1>3 DEF Inv, TypeOK, Row, Exists
<1>4. TypeOK' /\ RequestsFit'
  <2>1. \A t \in TaskIds : tasks[t] # NoTask => t \in used
    BY DEF Inv, RequestsFit, Exists
  <2>. QED BY <1>2, <1>3, <2>1, Ends DEF Inv, TypeOK
<1>5. RowsConsistent'
  <2>1. ASSUME NEW t \in TaskIds, tasks'[t] # NoTask PROVE RowFits(tasks'[t])
    BY <1>3, <2>1 DEF Inv, RowsConsistent, Exists, RowFits
  <2>2. ASSUME NEW tick \in ticks
        PROVE  tasks'[tick[1]] # NoTask /\ tasks'[tick[1]].kind = "everyone"
    <3>1. tick[1] \in TaskIds /\ tasks[tick[1]] # NoTask /\ tasks[tick[1]].kind = "everyone"
      BY DEF Inv, TypeOK, RowsConsistent, Exists
    <3>2. NoTask \notin Task
      BY NullsAssumption
    <3>. QED BY <1>1, <1>3, <3>1, <3>2 DEF Inv, TypeOK
  <2>. QED BY <2>1, <2>2 DEF RowsConsistent, RowFits, Exists
<1>. QED BY <1>4, <1>5 DEF Inv

-----------------------------------------------------------------------------
(***************************************************************************)
(* Every step keeps the invariant.                                         *)
(***************************************************************************)

\* A step that begins a statement, or only looks.
LEMMA Looks ==
  ASSUME Inv, NEW p \in Procs,
         \/ CreateRead(p) \/ UpdateRead(p) \/ AssignRead(p) \/ ClaimRead(p)
         \/ Complete(p) \/ ReopenRole(p) \/ Reopen(p)
  PROVE  Inv'
<1>1. req[p] \in Request
  BY DEF Inv, TypeOK
<1>2. ASSUME NEW step \in {"create_write", "update_write", "assign_write"}, Read(p, step),
             step = "create_write" => pc[p] = "create_read",
             step # "create_write" => pc[p] \in {"update_read", "assign_read"}
      PROVE  Inv'
  <2>. DEFINE r == [req[p] EXCEPT !.part = TakingPart, !.days = days]
  <2>1. r \in Request /\ r.user = req[p].user /\ r.task = req[p].task
        /\ r.kind = req[p].kind /\ r.who = req[p].who
    BY <1>1 DEF Request, TakingPart, Inv, TypeOK
  <2>2. req' = [req EXCEPT ![p] = r] /\ pc' = [pc EXCEPT ![p] = step] /\ UNCHANGED <<table, trip>>
    BY <1>2 DEF Read
  <2>3. step \in Steps
    BY DEF Steps
  <2>4. r.user \in Users /\ (step # "create_write" => r.task \in used)
        /\ (step = "create_write" /\ r.kind = "everyone" => r.who = NoUser)
    BY <1>2, <2>1 DEF Inv, RequestsFit
  <2>. HIDE DEF r
  <2>. QED BY <2>1, <2>2, <2>3, <2>4, GoesOn
<1>3. ASSUME NEW step \in {"tick", "finish", "untick", "unfinish"}, Goto(p, step),
             pc[p] \in {"complete", "reopen"}, step = "tick" => Row(p).kind = "everyone"
      PROVE  Inv'
  <2>1. req' = [req EXCEPT ![p] = req[p]]
    BY <1>3 DEF Goto, Inv, TypeOK
  <2>2. step \in Steps
    BY DEF Steps
  <2>3. req[p].user \in Users /\ req[p].task \in used
    BY <1>3 DEF Inv, RequestsFit
  <2>. QED BY <1>1, <1>3, <2>1, <2>2, <2>3, GoesOn DEF Goto, Row
<1>4. CASE CreateRead(p)
  BY <1>2, <1>4, Stops DEF CreateRead
<1>5. CASE UpdateRead(p)
  BY <1>2, <1>5, Stops DEF UpdateRead
<1>6. CASE AssignRead(p)
  BY <1>2, <1>6, Stops DEF AssignRead
<1>7. CASE ClaimRead(p)
  <2>1. CASE Stop(p)
    BY <2>1, Stops
  <2>2. CASE MayClaim(p, TakingPart) /\ ~Stop(p)
    <3>. DEFINE r == [req[p] EXCEPT !.part = TakingPart, !.who = Row(p).assignee]
    <3>0. pc[p] = "claim_read" /\ req[p].user \in Users /\ req[p].task \in used
      BY <1>7 DEF ClaimRead, Inv, RequestsFit
    <3>1. Row(p) \in Task
      BY <2>2, <3>0 DEF MayClaim, Unfinished, Exists, Row, Inv, TypeOK
    <3>2. r \in Request /\ r.user = req[p].user /\ r.task = req[p].task
      BY <1>1, <3>1 DEF Request, TakingPart, Task
    <3>3. req' = [req EXCEPT ![p] = r] /\ pc' = [pc EXCEPT ![p] = "claim_write"]
          /\ UNCHANGED <<table, trip>>
      BY <1>7, <2>2 DEF ClaimRead
    <3>4. "claim_write" \in Steps
      BY DEF Steps
    <3>. HIDE DEF r
    <3>. QED BY <3>0, <3>2, <3>3, <3>4, GoesOn
  <2>. QED BY <1>7, <2>1, <2>2 DEF ClaimRead
<1>8. CASE Complete(p)
  BY <1>3, <1>8, Stops DEF Complete
<1>9. CASE Reopen(p)
  BY <1>3, <1>9, Stops DEF Reopen
<1>10. CASE ReopenRole(p)
  <2>. DEFINE r == [req[p] EXCEPT !.any = standing[req[p].user] = "editor"]
  <2>1. r \in Request /\ r.user = req[p].user /\ r.task = req[p].task
    BY <1>1 DEF Request
  <2>2. req' = [req EXCEPT ![p] = r] /\ pc' = [pc EXCEPT ![p] = "reopen"]
        /\ UNCHANGED <<table, trip>> /\ pc[p] = "reopen_role"
    BY <1>10 DEF ReopenRole
  <2>3. "reopen" \in Steps
    BY DEF Steps
  <2>4. req[p].user \in Users /\ req[p].task \in used
    BY <2>2 DEF Inv, RequestsFit
  <2>. HIDE DEF r
  <2>. QED BY <2>1, <2>2, <2>3, <2>4, GoesOn
<1>. QED BY <1>4, <1>5, <1>6, <1>7, <1>8, <1>9, <1>10

\* A step that rewrites the task's row.
LEMMA Writes ==
  ASSUME Inv, NEW p \in Procs,
         \/ UpdateWrite(p) \/ AssignWrite(p) \/ ClaimWrite(p)
         \/ Drop(p) \/ FinishTask(p) \/ Unfinish(p)
  PROVE  Inv'
<1>0. /\ claimant \in [TaskIds -> Users \union {NoUser}]
      /\ req[p] \in Request
      /\ pc[p] \notin {"idle", "create_read", "create_write"} =>
           req[p].task \in TaskIds /\ req[p].user \in Users
  BY DEF Inv, TypeOK, RequestsFit
<1>1. ASSUME pc[p] \notin {"idle", "create_read", "create_write"}, Exists(req[p].task)
      PROVE  Row(p) \in Task /\ RowFits(Row(p))
  BY <1>0, <1>1 DEF Inv, TypeOK, RowsConsistent, Row, Exists, RowFits
<1>2. ASSUME NEW condition \in BOOLEAN, NEW row, WriteIf(p, condition, row),
             pc[p] \notin {"idle", "create_read", "create_write"},
             condition => Exists(req[p].task) /\ row \in Task /\ row.kind = Row(p).kind /\ RowFits(row)
      PROVE  Inv'
  BY <1>0, <1>2, Rewrites DEF WriteIf
<1>3. CASE UpdateWrite(p)
  <2>. DEFINE row == [Row(p) EXCEPT !.date = req[p].date]
  <2>1. ASSUME MayDate(p, req[p].days)
        PROVE  Exists(req[p].task) /\ row \in Task /\ row.kind = Row(p).kind /\ RowFits(row)
    <3>1. Row(p) \in Task /\ RowFits(Row(p)) /\ Exists(req[p].task)
      BY <1>1, <1>3, <2>1 DEF UpdateWrite, MayDate
    <3>. QED BY <1>0, <3>1 DEF Task, RowFits, Request
  <2>2. MayDate(p, req[p].days) \in BOOLEAN
    BY DEF MayDate, Exists, DateFits
  <2>3. WriteIf(p, MayDate(p, req[p].days), row) /\ pc[p] = "update_write"
    BY <1>3 DEF UpdateWrite
  <2>. HIDE DEF row
  <2>. QED BY <1>2, <2>1, <2>2, <2>3
<1>4. CASE AssignWrite(p)
  <2>. DEFINE row == [Row(p) EXCEPT !.assignee = req[p].who]
  <2>1. ASSUME MayAssign(p, req[p].part)
        PROVE  Exists(req[p].task) /\ row \in Task /\ row.kind = Row(p).kind /\ RowFits(row)
    <3>1. Row(p) \in Task /\ Exists(req[p].task) /\ Row(p).kind = "one_person" /\ ~Row(p).done
      BY <1>1, <1>4, <2>1 DEF AssignWrite, MayAssign, Unfinished, Row
    <3>. QED BY <1>0, <3>1 DEF Task, RowFits, Request
  <2>2. MayAssign(p, req[p].part) \in BOOLEAN
    BY DEF MayAssign, Unfinished, Exists
  <2>3. WriteIf(p, MayAssign(p, req[p].part), row) /\ pc[p] = "assign_write"
    BY <1>4 DEF AssignWrite
  <2>. HIDE DEF row
  <2>. QED BY <1>2, <2>1, <2>2, <2>3
<1>5. CASE ClaimWrite(p)
  <2>1. ASSUME MayClaim(p, req[p].part)
        PROVE  /\ Exists(req[p].task) /\ Claimed(p) \in Task
               /\ Claimed(p).kind = Row(p).kind /\ RowFits(Claimed(p))
    <3>1. Row(p) \in Task /\ Exists(req[p].task) /\ Row(p).kind = "one_person" /\ ~Row(p).done
      BY <1>1, <1>5, <2>1 DEF ClaimWrite, MayClaim, Unfinished, Row
    <3>2. req[p].user \in Users
      BY <1>0, <1>5 DEF ClaimWrite
    <3>. QED BY <3>1, <3>2 DEF Task, RowFits, Claimed
  <2>2. MayClaim(p, req[p].part) \in BOOLEAN
    BY DEF MayClaim, Unfinished, Exists
  <2>3. claimant' \in [TaskIds -> Users \union {NoUser}]
    BY <1>0, <1>5 DEF ClaimWrite
  <2>. QED BY <1>5, <2>1, <2>2, <2>3, Rewrites DEF ClaimWrite
<1>6. CASE Drop(p)
  <2>. DEFINE row == [Row(p) EXCEPT !.assignee = NoUser]
              condition == Unfinished(req[p].task) /\ Row(p).assignee = req[p].user
  <2>1. ASSUME condition
        PROVE  Exists(req[p].task) /\ row \in Task /\ row.kind = Row(p).kind /\ RowFits(row)
    <3>1. Row(p) \in Task /\ Exists(req[p].task) /\ ~Row(p).done
      BY <1>1, <1>6, <2>1 DEF Drop, Unfinished, Row
    <3>. QED BY <3>1 DEF Task, RowFits
  <2>2. condition \in BOOLEAN
    BY DEF Unfinished, Exists
  <2>3. WriteIf(p, condition, row) /\ pc[p] = "drop"
    BY <1>6 DEF Drop
  <2>. HIDE DEF row, condition
  <2>. QED BY <1>2, <2>1, <2>2, <2>3
<1>7. CASE FinishTask(p)
  <2>. DEFINE row == [Row(p) EXCEPT !.done = TRUE]
              condition == /\ Exists(req[p].task)
                           /\ ~Row(p).done
                           /\ Row(p).assignee = req[p].user
  <2>1. ASSUME condition
        PROVE  Exists(req[p].task) /\ row \in Task /\ row.kind = Row(p).kind /\ RowFits(row)
    <3>1. Row(p) \in Task /\ Exists(req[p].task) /\ RowFits(Row(p))
          /\ Row(p).assignee = req[p].user
      BY <1>1, <1>7, <2>1 DEF FinishTask
    <3>2. req[p].user # NoUser
      BY <1>0, <1>7, NullsAssumption DEF FinishTask
    <3>. QED BY <3>1, <3>2 DEF Task, RowFits
  <2>2. condition \in BOOLEAN
    OBVIOUS
  <2>3. WriteIf(p, condition, row) /\ pc[p] = "finish"
    BY <1>7 DEF FinishTask
  <2>. HIDE DEF row, condition
  <2>. QED BY <1>2, <2>1, <2>2, <2>3
<1>8. CASE Unfinish(p)
  <2>. DEFINE row == [Row(p) EXCEPT !.done = FALSE]
              condition == /\ Exists(req[p].task)
                           /\ Row(p).done
                           /\ req[p].any \/ Row(p).assignee = req[p].user
  <2>1. ASSUME condition
        PROVE  Exists(req[p].task) /\ row \in Task /\ row.kind = Row(p).kind /\ RowFits(row)
    <3>1. Row(p) \in Task /\ Exists(req[p].task) /\ RowFits(Row(p))
      BY <1>1, <1>8, <2>1 DEF Unfinish
    <3>. QED BY <3>1 DEF Task, RowFits
  <2>2. condition \in BOOLEAN
    OBVIOUS
  <2>3. WriteIf(p, condition, row) /\ pc[p] = "unfinish"
    BY <1>8 DEF Unfinish
  <2>. HIDE DEF row, condition
  <2>. QED BY <1>2, <2>1, <2>2, <2>3
<1>. QED BY <1>3, <1>4, <1>5, <1>6, <1>7, <1>8

\* A new task, a deleted one, and ticks.
LEMMA TaskComes ==
  ASSUME Inv, NEW p \in Procs, CreateWrite(p)
  PROVE  Inv'
<1>1. PICK t \in TaskIds \ used :
        /\ tasks' = [tasks EXCEPT ![t] = [kind |-> req[p].kind, assignee |-> req[p].who,
                                          done |-> FALSE, date |-> req[p].date]]
        /\ used' = used \union {t}
  BY DEF CreateWrite
<1>. DEFINE row == [kind |-> req[p].kind, assignee |-> req[p].who,
                    done |-> FALSE, date |-> req[p].date]
<1>2. Finish(p) /\ UNCHANGED <<ticks, claimant>> /\ pc[p] = "create_write"
  BY DEF CreateWrite
<1>3. row \in Task /\ RowFits(row)
  <2>1. req[p] \in Request
    BY DEF Inv, TypeOK
  <2>2. req[p].kind = "everyone" => req[p].who = NoUser
    BY <1>2 DEF Inv, RequestsFit
  <2>. QED BY <2>1, <2>2 DEF Request, Task, RowFits
<1>4. tasks' = [tasks EXCEPT ![t] = row]
  BY <1>1
<1>. HIDE DEF row
<1>5. tasks[t] = NoTask
  BY DEF Inv, RequestsFit, Exists
<1>6. \A s \in TaskIds : tasks[s] # NoTask => s \in used
  BY DEF Inv, RequestsFit, Exists
<1>7. tasks \in [TaskIds -> Task \union {NoTask}] /\ used \subseteq TaskIds
  BY DEF Inv, TypeOK
<1>8. TypeOK' /\ RequestsFit'
  <2>1. tasks' \in [TaskIds -> Task \union {NoTask}]
    BY <1>3, <1>4, <1>7
  <2>2. \A s \in TaskIds : tasks'[s] # NoTask =>
          s \in used' /\ (s \in used => tasks[s] # NoTask /\ tasks'[s].kind = tasks[s].kind)
    BY <1>1, <1>4, <1>6, <1>7
  <2>. QED BY <1>1, <1>2, <1>7, <2>1, <2>2, Ends DEF Inv, TypeOK
<1>9. RowsConsistent'
  <2>1. \A s \in TaskIds : tasks[s] # NoTask => RowFits(tasks[s])
    BY DEF Inv, RowsConsistent, Exists, RowFits
  <2>2. \A s \in TaskIds : tasks'[s] # NoTask => RowFits(tasks'[s])
    BY <1>3, <1>4, <1>7, <2>1
  <2>3. ASSUME NEW tick \in ticks
        PROVE  tasks'[tick[1]] # NoTask /\ tasks'[tick[1]].kind = "everyone"
    <3>1. tick[1] \in TaskIds /\ tasks[tick[1]] # NoTask /\ tasks[tick[1]].kind = "everyone"
      BY DEF Inv, TypeOK, RowsConsistent, Exists
    <3>. QED BY <1>4, <1>5, <1>7, <3>1
  <2>. QED BY <1>2, <2>2, <2>3 DEF RowsConsistent, RowFits, Exists
<1>. QED BY <1>8, <1>9 DEF Inv

LEMMA TaskGoes ==
  ASSUME Inv, NEW p \in Procs, Delete(p)
  PROVE  Inv'
<1>1. req[p].task \in TaskIds
  BY DEF Delete, Inv, TypeOK, RequestsFit
<1>2. \A s \in TaskIds : tasks[s] # NoTask => s \in used
  BY DEF Inv, RequestsFit, Exists
<1>3. ticks' \subseteq ticks /\ \A tick \in ticks' : tick[1] # req[p].task
  BY DEF Delete
<1>4. \A s \in TaskIds : tasks'[s] = IF s = req[p].task THEN NoTask ELSE tasks[s]
  BY <1>1 DEF Delete, Inv, TypeOK
<1>5. TypeOK' /\ RequestsFit'
  <2>1. tasks' \in [TaskIds -> Task \union {NoTask}] /\ ticks' \subseteq TaskIds \X Users
    BY <1>3 DEF Delete, Inv, TypeOK
  <2>2. Finish(p) /\ UNCHANGED <<used, claimant>>
    BY DEF Delete
  <2>. QED BY <1>2, <1>4, <2>1, <2>2, Ends DEF Inv, TypeOK
<1>6. RowsConsistent'
  <2>1. ASSUME NEW tick \in ticks'
        PROVE  tasks'[tick[1]] # NoTask /\ tasks'[tick[1]].kind = "everyone"
    <3>1. tick[1] \in TaskIds /\ tasks[tick[1]] # NoTask /\ tasks[tick[1]].kind = "everyone"
      BY <1>3 DEF Inv, TypeOK, RowsConsistent, Exists
    <3>. QED BY <1>3, <1>4, <3>1
  <2>. QED BY <1>4, <2>1 DEF Inv, RowsConsistent, Exists
<1>. QED BY <1>5, <1>6 DEF Inv

LEMMA TicksChange ==
  ASSUME Inv, NEW p \in Procs, Tick(p) \/ Untick(p)
  PROVE  Inv'
<1>1. Finish(p) /\ UNCHANGED <<tasks, used, claimant>> /\ pc[p] \in {"tick", "untick"}
  BY DEF Tick, Untick
<1>2. req[p].task \in TaskIds /\ req[p].user \in Users
  BY <1>1 DEF Inv, TypeOK, RequestsFit
<1>3. \A tick \in ticks' :
        \/ tick \in ticks
        \/ /\ tick = <<req[p].task, req[p].user>>
           /\ pc[p] = "tick" /\ Exists(req[p].task)
  BY DEF Tick, Untick
<1>4. TypeOK' /\ RequestsFit'
  <2>1. \A s \in TaskIds : tasks[s] # NoTask => s \in used
    BY DEF Inv, RequestsFit, Exists
  <2>2. ticks' \subseteq TaskIds \X Users
    BY <1>2, <1>3 DEF Inv, TypeOK
  <2>. QED BY <1>1, <2>1, <2>2, Ends DEF Inv, TypeOK
<1>5. RowsConsistent'
  <2>1. ASSUME NEW tick \in ticks'
        PROVE  Exists(tick[1]) /\ tasks[tick[1]].kind = "everyone"
    BY <1>3 DEF Inv, RequestsFit, RowsConsistent
  <2>. QED BY <1>1, <2>1 DEF Inv, RowsConsistent, Exists
<1>. QED BY <1>4, <1>5 DEF Inv

\* What the rest of the trip does.
LEMMA TripChanges ==
  ASSUME Inv, MoveTrip \/ \E u \in Users : ChangeStanding(u)
  PROVE  Inv'
<1>1. UNCHANGED <<table, pc, req>>
  BY DEF MoveTrip, ChangeStanding
<1>2. standing' \in [Users -> Standings] /\ days' \subseteq Dates /\ everDays' \subseteq Dates
  BY DEF MoveTrip, ChangeStanding, Inv, TypeOK
<1>. QED BY <1>1, <1>2 DEF Inv, TypeOK, RequestsFit, RowsConsistent, Exists, table

-----------------------------------------------------------------------------
LEMMA Initially == Init => Inv
<1>. SUFFICES ASSUME Init PROVE Inv
  OBVIOUS
<1>1. TypeOK
  BY NothingIsRequest DEF Init, TypeOK, Steps
<1>2. RequestsFit /\ RowsConsistent
  BY DEF Init, RequestsFit, RowsConsistent, Exists
<1>. QED BY <1>1, <1>2 DEF Inv

\* Inv is inductive: one case for each kind of step.
LEMMA Inductive == Inv /\ [Next]_vars => Inv'
<1>. SUFFICES ASSUME Inv, [Next]_vars PROVE Inv'
  OBVIOUS
<1>1. ASSUME NEW p \in Procs, Start(p) PROVE Inv'
  <2>1. PICK r \in Request, step \in Steps :
          /\ Begin(p, r, step)
          /\ r.user \in Users
          /\ step \notin {"idle", "create_write", "tick"}
          /\ step = "create_read" => (r.kind = "everyone" => r.who = NoUser)
          /\ step # "create_read" => r.task \in used
    BY <1>1, Starts
  <2>. QED BY <2>1, GoesOn DEF Begin
<1>2. ASSUME NEW p \in Procs, Step(p) PROVE Inv'
  <2>1. CASE ReopenRefused(p)
    BY <2>1, Stops DEF ReopenRefused
  <2>. QED BY <1>2, <2>1, Looks, Writes, TaskComes, TaskGoes, TicksChange DEF Step
<1>3. ASSUME NEW p \in Procs, Abort(p) PROVE Inv'
  BY <1>3, Stops DEF Abort
<1>4. CASE MoveTrip \/ \E u \in Users : ChangeStanding(u)
  BY <1>4, TripChanges
<1>5. CASE UNCHANGED vars
  BY <1>5 DEF vars, table, trip, Inv, TypeOK, RequestsFit, RowsConsistent, Exists
<1>. QED BY <1>1, <1>2, <1>3, <1>4, <1>5 DEF Next

THEOREM Invariance == Spec => []Inv
<1>. QED BY Initially, Inductive, PTL DEF Spec

\* The variables keep their types.
THEOREM PrepTyped == Spec => []TypeOK
<1>1. Inv => TypeOK
  BY DEF Inv
<1>. QED BY <1>1, Invariance, PTL

\* No interleaving of assignments, claims, drops, completions, ticks and
\* deletions makes a row that a constraint of prep_tasks or prep_task_ticks
\* refuses, for any number of users, tasks and requests.
THEOREM RowsAlwaysConsistent == Spec => []RowsConsistent
<1>1. Inv => RowsConsistent
  BY DEF Inv
<1>. QED BY <1>1, Invariance, PTL

-----------------------------------------------------------------------------
(***************************************************************************)
(* What one statement may do to a task that exists and stays.              *)
(***************************************************************************)

\* A request's steps leave the other requests alone.
LEMMA OthersWait ==
  ASSUME Inv, NEW p \in Procs, Start(p) \/ Step(p) \/ Abort(p), NEW q \in Procs, q # p
  PROVE  pc'[q] = pc[q] /\ req'[q] = req[q]
<1>. USE DEF Inv, TypeOK, Stop, Finish, Read, Goto, WriteIf
<1>1. CASE Start(p)
  BY <1>1, Starts DEF Begin
<1>2. CASE Abort(p)
  BY <1>2 DEF Abort
<1>3. CASE CreateRead(p) \/ CreateWrite(p) \/ UpdateRead(p) \/ UpdateWrite(p) \/ Delete(p)
  BY <1>3 DEF CreateRead, CreateWrite, UpdateRead, UpdateWrite, Delete
<1>4. CASE AssignRead(p) \/ AssignWrite(p) \/ ClaimRead(p) \/ ClaimWrite(p) \/ Drop(p)
  BY <1>4 DEF AssignRead, AssignWrite, ClaimRead, ClaimWrite, Drop
<1>5. CASE Complete(p) \/ Tick(p) \/ FinishTask(p)
  BY <1>5 DEF Complete, Tick, FinishTask
<1>6. CASE ReopenRole(p) \/ ReopenRefused(p) \/ Reopen(p) \/ Untick(p) \/ Unfinish(p)
  BY <1>6 DEF ReopenRole, ReopenRefused, Reopen, Untick, Unfinish
<1>. QED BY <1>1, <1>2, <1>3, <1>4, <1>5, <1>6 DEF Step

\* The four ways a statement changes a task's row, field by field.
Redates(p, old, new) ==
  /\ pc[p] = "update_write" /\ DateFits(req[p].date, req[p].days \union {old.date})
  /\ new.assignee = old.assignee /\ new.done = old.done /\ new.date = req[p].date

Reassigns(old, new) == ~old.done /\ ~new.done /\ new.date = old.date

Completes(p, old, new) ==
  /\ ~old.done /\ old.assignee = req[p].user
  /\ new.assignee = old.assignee /\ new.date = old.date

Uncompletes(old, new) ==
  old.done /\ ~new.done /\ new.assignee = old.assignee /\ new.date = old.date

\* A row that changes is the task of the one request that moves.
LEMMA RowChanges ==
  ASSUME Inv, NEW p \in Procs, Step(p), NEW t \in TaskIds,
         Exists(t), tasks'[t] # NoTask, tasks'[t] # tasks[t]
  PROVE  /\ t = req[p].task
         /\ \/ Redates(p, tasks[t], tasks'[t])
            \/ Reassigns(tasks[t], tasks'[t])
            \/ Completes(p, tasks[t], tasks'[t])
            \/ Uncompletes(tasks[t], tasks'[t])
<1>1. tasks \in [TaskIds -> Task \union {NoTask}] /\ tasks[t] \in Task /\ t \in used
  BY DEF Inv, TypeOK, RequestsFit, Exists
<1>2. ASSUME NEW condition \in BOOLEAN, NEW row,
             tasks' = IF condition THEN [tasks EXCEPT ![req[p].task] = row] ELSE tasks
      PROVE  condition /\ t = req[p].task /\ tasks'[t] = row /\ Row(p) = tasks[t]
  BY <1>1, <1>2 DEF Row
<1>3. CASE UpdateWrite(p)
  <2>1. MayDate(p, req[p].days) \in BOOLEAN
    BY DEF MayDate, Exists, DateFits
  <2>2. /\ MayDate(p, req[p].days) /\ t = req[p].task /\ Row(p) = tasks[t]
        /\ tasks'[t] = [tasks[t] EXCEPT !.date = req[p].date]
    BY <1>2, <1>3, <2>1 DEF UpdateWrite, WriteIf
  <2>. QED BY <1>1, <1>3, <2>2 DEF UpdateWrite, MayDate, Redates, Task
<1>4. CASE AssignWrite(p)
  <2>1. MayAssign(p, req[p].part) \in BOOLEAN
    BY DEF MayAssign, Unfinished, Exists
  <2>2. /\ MayAssign(p, req[p].part) /\ t = req[p].task /\ Row(p) = tasks[t]
        /\ tasks'[t] = [tasks[t] EXCEPT !.assignee = req[p].who]
    BY <1>2, <1>4, <2>1 DEF AssignWrite, WriteIf
  <2>. QED BY <1>1, <2>2 DEF MayAssign, Unfinished, Reassigns, Task
<1>5. CASE ClaimWrite(p)
  <2>1. MayClaim(p, req[p].part) \in BOOLEAN
    BY DEF MayClaim, Unfinished, Exists
  <2>2. /\ MayClaim(p, req[p].part) /\ t = req[p].task /\ Row(p) = tasks[t]
        /\ tasks'[t] = [tasks[t] EXCEPT !.assignee = req[p].user]
    BY <1>2, <1>5, <2>1 DEF ClaimWrite, Claimed
  <2>. QED BY <1>1, <2>2 DEF MayClaim, Unfinished, Reassigns, Task
<1>6. CASE Drop(p)
  <2>1. (Unfinished(req[p].task) /\ Row(p).assignee = req[p].user) \in BOOLEAN
    OBVIOUS
  <2>2. /\ Unfinished(req[p].task) /\ t = req[p].task /\ Row(p) = tasks[t]
        /\ tasks'[t] = [tasks[t] EXCEPT !.assignee = NoUser]
    BY <1>2, <1>6, <2>1 DEF Drop, WriteIf
  <2>. QED BY <1>1, <2>2 DEF Unfinished, Reassigns, Task
<1>7. CASE FinishTask(p)
  <2>1. (Exists(req[p].task) /\ ~Row(p).done /\ Row(p).assignee = req[p].user) \in BOOLEAN
    OBVIOUS
  <2>2. /\ ~Row(p).done /\ Row(p).assignee = req[p].user
        /\ t = req[p].task /\ Row(p) = tasks[t]
        /\ tasks'[t] = [tasks[t] EXCEPT !.done = TRUE]
    BY <1>2, <1>7, <2>1 DEF FinishTask, WriteIf
  <2>. QED BY <1>1, <2>2 DEF Completes, Task
<1>8. CASE Unfinish(p)
  <2>1. (Exists(req[p].task) /\ Row(p).done /\ (req[p].any \/ Row(p).assignee = req[p].user))
          \in BOOLEAN
    OBVIOUS
  <2>2. /\ Row(p).done /\ t = req[p].task /\ Row(p) = tasks[t]
        /\ tasks'[t] = [tasks[t] EXCEPT !.done = FALSE]
    BY <1>2, <1>8, <2>1 DEF Unfinish, WriteIf
  <2>. QED BY <1>1, <2>2 DEF Uncompletes, Task
<1>9. CASE CreateWrite(p)
  BY <1>1, <1>9 DEF CreateWrite
<1>10. CASE Delete(p)
  BY <1>1, <1>10 DEF Delete
<1>11. CASE \/ CreateRead(p) \/ UpdateRead(p) \/ AssignRead(p) \/ ClaimRead(p) \/ Complete(p)
            \/ Tick(p) \/ ReopenRole(p) \/ ReopenRefused(p) \/ Reopen(p) \/ Untick(p)
  BY <1>11 DEF CreateRead, UpdateRead, AssignRead, ClaimRead, Complete, Tick, ReopenRole,
               ReopenRefused, Reopen, Untick, Read, Goto, Stop, table
<1>. QED BY <1>3, <1>4, <1>5, <1>6, <1>7, <1>8, <1>9, <1>10, <1>11 DEF Step

\* Nothing but a request's own statement writes to the task table.
LEMMA OnlyStepsWrite ==
  ASSUME Inv, [Next]_vars, tasks' # tasks
  PROVE  \E p \in Procs : Step(p)
<1>1. ASSUME NEW p \in Procs, Start(p) \/ Abort(p) PROVE FALSE
  BY <1>1, Starts DEF Begin, Abort, Stop, table
<1>. QED BY <1>1 DEF Next, ChangeStanding, MoveTrip, vars, table

\* A finished task keeps its assignee: assignments, claims and drops that were
\* under way when it was finished only touch what is not finished.
THEOREM AssigneeKeptWhenFinished == Spec => FinishedKeepsAssignee
<1>1. ASSUME Inv, [Next]_vars, NEW t \in TaskIds, Exists(t), tasks[t].done, tasks'[t] # NoTask
      PROVE  tasks'[t].assignee = tasks[t].assignee
  <2>1. CASE tasks'[t] = tasks[t]
    BY <2>1
  <2>2. CASE tasks'[t] # tasks[t]
    <3>1. PICK p \in Procs : Step(p)
      BY <1>1, <2>2, OnlyStepsWrite
    <3>. QED BY <1>1, <2>2, <3>1, RowChanges DEF Redates, Reassigns, Completes, Uncompletes
  <2>. QED BY <2>1, <2>2
<1>2. Inv /\ [Next]_vars
      => [\A t \in TaskIds : Exists(t) /\ tasks[t].done /\ tasks'[t] # NoTask
            => tasks'[t].assignee = tasks[t].assignee]_vars
  BY <1>1
<1>. QED BY <1>2, Invariance, PTL DEF Spec, FinishedKeepsAssignee

\* Whoever finishes a task is its assignee when the statement writes, not only
\* when the request looked.
THEOREM OnlyAssigneeFinishes == Spec => FinishedByAssignee
<1>1. ASSUME Inv, [Next]_vars, NEW t \in TaskIds, NEW p \in Procs,
             Exists(t), ~tasks[t].done, tasks'[t] # NoTask, tasks'[t].done, pc'[p] # pc[p]
      PROVE  tasks[t].assignee = req[p].user
  <2>1. tasks'[t] # tasks[t]
    BY <1>1
  <2>2. PICK q \in Procs : Step(q)
    BY <1>1, <2>1, OnlyStepsWrite
  <2>3. q = p
    BY <1>1, <2>2, OthersWait
  <2>. QED BY <1>1, <2>1, <2>2, <2>3, RowChanges DEF Redates, Reassigns, Completes, Uncompletes
<1>2. Inv /\ [Next]_vars
      => [\A t \in TaskIds, p \in Procs :
            /\ Exists(t) /\ ~tasks[t].done
            /\ tasks'[t] # NoTask /\ tasks'[t].done
            /\ pc'[p] # pc[p]
            => tasks[t].assignee = req[p].user]_vars
  BY <1>1
<1>. QED BY <1>2, Invariance, PTL DEF Spec, FinishedByAssignee

-----------------------------------------------------------------------------
(***************************************************************************)
(* Dates: the trip moves between the look at its days and the write.       *)
(***************************************************************************)

\* What the trip's days are, or were when a statement began, is on record, and
\* so is the date a creation has been let through with.
DaysOnRecord ==
  /\ days \subseteq everDays
  /\ \A p \in Procs : req[p].days \subseteq everDays
  /\ \A p \in Procs : pc[p] = "create_write" => DateFits(req[p].date, everDays)

DatesKept == DaysOnRecord /\ DatesWereDays

\* A request starts without days, and not at its write.
LEMMA StartsWithoutDays ==
  ASSUME Inv, NEW p \in Procs, Start(p)
  PROVE  req'[p].days = {} /\ pc'[p] # "create_write" /\ UNCHANGED <<table, trip>>
<1>. USE DEF Inv, TypeOK, Begin, Nothing
<1>1. CASE StartCreate(p)
  BY <1>1 DEF StartCreate
<1>2. CASE StartUpdate(p)
  BY <1>2 DEF StartUpdate
<1>3. CASE StartDelete(p)
  BY <1>3 DEF StartDelete
<1>4. CASE StartAssign(p)
  BY <1>4 DEF StartAssign
<1>5. ASSUME NEW step \in {"claim_read", "drop", "complete", "reopen_role"}, StartOwn(p, step)
      PROVE  req'[p].days = {} /\ pc'[p] # "create_write" /\ UNCHANGED <<table, trip>>
  BY <1>5 DEF StartOwn
<1>6. CASE StartClaim(p) \/ StartDrop(p) \/ StartComplete(p) \/ StartReopen(p)
  BY <1>5, <1>6 DEF StartClaim, StartDrop, StartComplete, StartReopen
<1>. QED BY <1>1, <1>2, <1>3, <1>4, <1>6 DEF Start

\* Only a statement that begins looks at the days, and a creation goes on to
\* its write when its date is one of them.
LEMMA StepsLookAtDays ==
  ASSUME Inv, DaysOnRecord, NEW p \in Procs, Step(p)
  PROVE  /\ UNCHANGED trip
         /\ req'[p].days \subseteq everDays
         /\ pc'[p] = "create_write" => DateFits(req'[p].date, everDays)
<1>. USE DEF Inv, TypeOK, Stop, Finish, Read, Goto, WriteIf, Nothing, Request, trip, DaysOnRecord
<1>1. CASE CreateRead(p)
  BY <1>1 DEF CreateRead, DateFits
<1>2. CASE CreateWrite(p) \/ UpdateRead(p) \/ UpdateWrite(p) \/ Delete(p)
  BY <1>2 DEF CreateWrite, UpdateRead, UpdateWrite, Delete
<1>3. CASE AssignRead(p) \/ AssignWrite(p) \/ ClaimRead(p) \/ ClaimWrite(p) \/ Drop(p)
  BY <1>3 DEF AssignRead, AssignWrite, ClaimRead, ClaimWrite, Drop
<1>4. CASE Complete(p) \/ Tick(p) \/ FinishTask(p)
  BY <1>4 DEF Complete, Tick, FinishTask
<1>5. CASE ReopenRole(p) \/ ReopenRefused(p) \/ Reopen(p) \/ Untick(p) \/ Unfinish(p)
  BY <1>5 DEF ReopenRole, ReopenRefused, Reopen, Untick, Unfinish
<1>. QED BY <1>1, <1>2, <1>3, <1>4, <1>5 DEF Step

\* A task's row carries a new date only from a creation or an update.
LEMMA StepsSaveDays ==
  ASSUME Inv, DatesKept, NEW p \in Procs, Step(p), NEW t \in TaskIds, tasks'[t] # NoTask
  PROVE  DateFits(tasks'[t].date, everDays)
<1>1. CASE tasks'[t] = tasks[t]
  BY <1>1 DEF DatesKept, DatesWereDays, Exists
<1>2. CASE Exists(t) /\ tasks'[t] # tasks[t]
  <2>1. DateFits(tasks[t].date, everDays) /\ req[p].days \subseteq everDays
    BY <1>2 DEF DatesKept, DatesWereDays, DaysOnRecord
  <2>. QED BY <1>2, <2>1, RowChanges
       DEF Redates, Reassigns, Completes, Uncompletes, DateFits
<1>3. CASE ~Exists(t)
  <2>1. CASE CreateWrite(p)
    BY <1>3, <2>1 DEF CreateWrite, Exists, DatesKept, DaysOnRecord, Inv, TypeOK
  <2>2. CASE ~CreateWrite(p)
    <3>1. pc[p] \notin {"idle", "create_read", "create_write"} => req[p].task \in TaskIds
      BY DEF Inv, TypeOK, RequestsFit
    <3>2. tasks'[t] = NoTask
      BY <1>3, <2>2, <3>1
      DEF Step, CreateRead, UpdateRead, UpdateWrite, Delete, AssignRead, AssignWrite, ClaimRead,
          ClaimWrite, Drop, Complete, Tick, FinishTask, ReopenRole, ReopenRefused, Reopen, Untick,
          Unfinish, Read, Goto, Stop, WriteIf, table, Exists, MayDate, MayAssign, MayClaim,
          Unfinished, Inv, TypeOK
    <3>. QED BY <3>2
  <2>. QED BY <2>1, <2>2
<1>. QED BY <1>1, <1>2, <1>3

LEMMA DatesInductive == Inv /\ DatesKept /\ [Next]_vars => DatesKept'
<1>. SUFFICES ASSUME Inv, DatesKept, [Next]_vars PROVE DatesKept'
  OBVIOUS
<1>1. ASSUME NEW p \in Procs, Start(p) PROVE DatesKept'
  BY <1>1, StartsWithoutDays, OthersWait
  DEF DatesKept, DaysOnRecord, DatesWereDays, Exists, table, trip
<1>2. ASSUME NEW p \in Procs, Step(p) PROVE DatesKept'
  <2>1. DaysOnRecord'
    BY <1>2, StepsLookAtDays, OthersWait DEF DatesKept, DaysOnRecord, trip
  <2>2. DatesWereDays'
    BY <1>2, StepsSaveDays, StepsLookAtDays DEF DatesKept, DatesWereDays, Exists, trip
  <2>. QED BY <2>1, <2>2 DEF DatesKept
<1>3. ASSUME NEW p \in Procs, Abort(p) PROVE DatesKept'
  <2>1. UNCHANGED <<table, trip>> /\ req'[p].days = {} /\ pc'[p] = "idle"
    BY <1>3 DEF Abort, Stop, Finish, Nothing, Inv, TypeOK
  <2>. QED BY <1>3, <2>1, OthersWait
       DEF DatesKept, DaysOnRecord, DatesWereDays, Exists, table, trip
<1>4. CASE MoveTrip \/ (\E u \in Users : ChangeStanding(u)) \/ UNCHANGED vars
  BY <1>4 DEF MoveTrip, ChangeStanding, vars, table, trip, DatesKept, DaysOnRecord,
              DatesWereDays, DateFits, Exists
<1>. QED BY <1>1, <1>2, <1>3, <1>4 DEF Next

\* A task's date has been one of the trip's days, through any interleaving of
\* creations, edits and moves of the trip.
THEOREM DatesAlwaysWereDays == Spec => []DatesWereDays
<1>1. Init => DatesKept
  BY DEF Init, DatesKept, DaysOnRecord, DatesWereDays, Exists, Nothing
<1>2. DatesKept => DatesWereDays
  BY DEF DatesKept
<1>. QED BY <1>1, <1>2, DatesInductive, Invariance, PTL DEF Spec
=============================================================================
