--------------------------------- MODULE Prep ---------------------------------
(***************************************************************************)
(* The Prep tasks of one trip (src/internal/prep): one person claims, is   *)
(* assigned and finishes a task, everyone ticks the other kind.            *)
(*                                                                         *)
(* Every write is a single statement that commits by itself.  A statement  *)
(* sees the database as it was when it began; when it reaches a row that   *)
(* has changed since, PostgreSQL evaluates its condition again on the new  *)
(* row, but the subqueries of the condition (who takes part) still see the *)
(* old database.  The statements with such a subquery therefore have a     *)
(* step that reads and a step that writes; a condition on the row alone is *)
(* one step.  A statement that finds its row unqualified writes nothing,   *)
(* whatever it then reports.  Titles and activity links are left out.      *)
(***************************************************************************)

CONSTANTS
  Users,     \* people who are or were on the trip
  Procs,     \* requests the server can have in flight
  TaskIds,   \* task ids; the bound on tasks ever created
  Dates,     \* dates requests ask for
  NoUser, NoTask, NoDate

Kinds == {"one_person", "everyone"}

\* What a role amounts to here: owners write like editors, and viewers take
\* no more part than people outside the trip.
Standings == {"editor", "member", "none"}

Task == [kind : Kinds, assignee : Users \union {NoUser}, done : BOOLEAN,
         date : Dates \union {NoDate}]

ASSUME NullsAssumption ==
  /\ NoUser \notin Users
  /\ NoDate \notin Dates
  /\ NoTask \notin Task

VARIABLES
  standing,  \* each user's role on the trip, changed by Memberships
  days,      \* the trip's days among Dates, changed by trips.Update
  everDays,  \* history: dates that were the trip's days once
  tasks,     \* prep_tasks
  used,      \* task ids ever given out
  ticks,     \* prep_task_ticks
  claimant,  \* history: whose claim of each task succeeded last
  pc,        \* the next step of each request
  req        \* what each request carries

table == <<tasks, used, ticks, claimant>>
trip == <<standing, days, everDays>>
vars == <<table, trip, pc, req>>

Request ==
  [user : Users \union {NoUser}, task : TaskIds \union {NoTask},
   who : Users \union {NoUser}, kind : Kinds, date : Dates \union {NoDate},
   part : SUBSET Users, days : SUBSET Dates, any : BOOLEAN]

Nothing ==
  [user |-> NoUser, task |-> NoTask, who |-> NoUser, kind |-> "one_person",
   date |-> NoDate, part |-> {}, days |-> {}, any |-> FALSE]

Steps ==
  {"idle", "create_read", "create_write", "update_read", "update_write", "delete",
   "assign_read", "assign_write", "claim_read", "claim_write", "drop",
   "complete", "tick", "finish", "reopen_role", "reopen", "untick", "unfinish"}

TypeOK ==
  /\ standing \in [Users -> Standings]
  /\ days \subseteq Dates
  /\ everDays \subseteq Dates
  /\ tasks \in [TaskIds -> Task \union {NoTask}]
  /\ used \subseteq TaskIds
  /\ ticks \subseteq TaskIds \X Users
  /\ claimant \in [TaskIds -> Users \union {NoUser}]
  /\ pc \in [Procs -> Steps]
  /\ req \in [Procs -> Request]

-----------------------------------------------------------------------------
TakingPart == {u \in Users : standing[u] # "none"}

Exists(t) == tasks[t] # NoTask

Unfinished(t) == Exists(t) /\ tasks[t].kind = "one_person" /\ ~tasks[t].done

\* A date must be one of the trip's days; no date always may be.
DateFits(d, within) == d = NoDate \/ d \in within

Begin(p, r, step) ==
  /\ pc[p] = "idle"
  /\ req' = [req EXCEPT ![p] = r]
  /\ pc' = [pc EXCEPT ![p] = step]
  /\ UNCHANGED <<table, trip>>

Goto(p, step) ==
  /\ pc' = [pc EXCEPT ![p] = step]
  /\ UNCHANGED <<table, trip, req>>

\* A statement begins: its subqueries will see what is committed now.
Read(p, step) ==
  /\ req' = [req EXCEPT ![p].part = TakingPart, ![p].days = days]
  /\ pc' = [pc EXCEPT ![p] = step]
  /\ UNCHANGED <<table, trip>>

Finish(p) ==
  /\ pc' = [pc EXCEPT ![p] = "idle"]
  /\ req' = [req EXCEPT ![p] = Nothing]
  /\ UNCHANGED trip

\* The request ends with an error, or with nothing to do.
Stop(p) == Finish(p) /\ UNCHANGED table

\* The statement writes this row, or no row when the condition fails.
WriteIf(p, condition, row) ==
  /\ tasks' = IF condition THEN [tasks EXCEPT ![req[p].task] = row] ELSE tasks
  /\ Finish(p)
  /\ UNCHANGED <<used, ticks, claimant>>

Row(p) == tasks[req[p].task]

-----------------------------------------------------------------------------
(***************************************************************************)
(* Editors create, edit, delete and assign tasks.                          *)
(***************************************************************************)
StartCreate(p) ==
  \E u \in Users, k \in Kinds, w \in Users \union {NoUser}, d \in Dates \union {NoDate} :
    /\ standing[u] = "editor"
    /\ k = "everyone" => w = NoUser
    /\ Begin(p, [Nothing EXCEPT !.user = u, !.kind = k, !.who = w, !.date = d], "create_read")

CreateRead(p) ==
  /\ pc[p] = "create_read"
  /\ IF req[p].who \in TakingPart \union {NoUser} /\ DateFits(req[p].date, days)
       THEN Read(p, "create_write")
       ELSE Stop(p)

CreateWrite(p) ==
  /\ pc[p] = "create_write"
  /\ \E t \in TaskIds \ used :
       /\ tasks' = [tasks EXCEPT ![t] = [kind |-> req[p].kind, assignee |-> req[p].who,
                                         done |-> FALSE, date |-> req[p].date]]
       /\ used' = used \union {t}
  /\ Finish(p)
  /\ UNCHANGED <<ticks, claimant>>

StartUpdate(p) ==
  \E u \in Users, t \in used, d \in Dates \union {NoDate} :
    /\ standing[u] = "editor"
    /\ Begin(p, [Nothing EXCEPT !.user = u, !.task = t, !.date = d], "update_read")

\* Slip: a changed date is not compared with the trip.
MayDateFreely(p, within) == Exists(req[p].task)

\* An unchanged date may stay although the trip has moved.
MayDate(p, within) ==
  /\ Exists(req[p].task)
  /\ DateFits(req[p].date, within \union {Row(p).date})

UpdateRead(p) ==
  /\ pc[p] = "update_read"
  /\ IF MayDate(p, days) THEN Read(p, "update_write") ELSE Stop(p)

UpdateWrite(p) ==
  /\ pc[p] = "update_write"
  /\ WriteIf(p, MayDate(p, req[p].days), [Row(p) EXCEPT !.date = req[p].date])

StartDelete(p) ==
  \E u \in Users, t \in used :
    /\ standing[u] = "editor"
    /\ Begin(p, [Nothing EXCEPT !.user = u, !.task = t], "delete")

\* The ticks go with the task.
Delete(p) ==
  /\ pc[p] = "delete"
  /\ tasks' = [tasks EXCEPT ![req[p].task] = NoTask]
  /\ ticks' = {tick \in ticks : tick[1] # req[p].task}
  /\ Finish(p)
  /\ UNCHANGED <<used, claimant>>

StartAssign(p) ==
  \E u \in Users, t \in used, w \in Users \union {NoUser} :
    /\ standing[u] = "editor"
    /\ Begin(p, [Nothing EXCEPT !.user = u, !.task = t, !.who = w], "assign_read")

\* Slip: finished tasks can be assigned too.
MayAssignFinished(p, part) ==
  /\ Exists(req[p].task) /\ Row(p).kind = "one_person"
  /\ req[p].who \in part \union {NoUser}

MayAssign(p, part) ==
  /\ Unfinished(req[p].task)
  /\ req[p].who \in part \union {NoUser}

AssignRead(p) ==
  /\ pc[p] = "assign_read"
  /\ IF MayAssign(p, TakingPart) THEN Read(p, "assign_write") ELSE Stop(p)

AssignWrite(p) ==
  /\ pc[p] = "assign_write"
  /\ WriteIf(p, MayAssign(p, req[p].part), [Row(p) EXCEPT !.assignee = req[p].who])

-----------------------------------------------------------------------------
(***************************************************************************)
(* Those who take part claim, drop, finish and tick.  The service checks   *)
(* that they do; the statements that follow do not ask again.              *)
(***************************************************************************)
StartOwn(p, step) ==
  \E u \in TakingPart, t \in used :
    Begin(p, [Nothing EXCEPT !.user = u, !.task = t], step)

StartClaim(p) == StartOwn(p, "claim_read")

\* A task whose assignee does not take part is open.
MayClaim(p, part) == Unfinished(req[p].task) /\ Row(p).assignee \notin part

\* The assignee it sees is kept for ClaimsHaveOneWinner alone.
ClaimRead(p) ==
  /\ pc[p] = "claim_read"
  /\ IF MayClaim(p, TakingPart)
       THEN /\ req' = [req EXCEPT ![p].part = TakingPart, ![p].who = Row(p).assignee]
            /\ pc' = [pc EXCEPT ![p] = "claim_write"]
            /\ UNCHANGED <<table, trip>>
       ELSE Stop(p)

Claimed(p) == [Row(p) EXCEPT !.assignee = req[p].user]

ClaimWrite(p) ==
  /\ pc[p] = "claim_write"
  /\ LET won == MayClaim(p, req[p].part)
     IN /\ tasks' = IF won THEN [tasks EXCEPT ![req[p].task] = Claimed(p)] ELSE tasks
        /\ claimant' = IF won THEN [claimant EXCEPT ![req[p].task] = req[p].user] ELSE claimant
  /\ Finish(p)
  /\ UNCHANGED <<used, ticks>>

StartDrop(p) == StartOwn(p, "drop")

Drop(p) ==
  /\ pc[p] = "drop"
  /\ WriteIf(p, Unfinished(req[p].task) /\ Row(p).assignee = req[p].user,
             [Row(p) EXCEPT !.assignee = NoUser])

StartComplete(p) == StartOwn(p, "complete")

\* state() tells the kind of the task, and with it the write.
Complete(p) ==
  /\ pc[p] = "complete"
  /\ IF ~Exists(req[p].task)
       THEN Stop(p)
       ELSE Goto(p, IF Row(p).kind = "everyone" THEN "tick" ELSE "finish")

\* Slip: no foreign key, or one that is not checked.
TickUnchecked(p) ==
  /\ pc[p] = "tick"
  /\ ticks' = ticks \union {<<req[p].task, req[p].user>>}
  /\ Finish(p)
  /\ UNCHANGED <<tasks, used, claimant>>

\* INSERT ... ON CONFLICT DO NOTHING; the foreign key refuses a deleted task.
Tick(p) ==
  /\ pc[p] = "tick"
  /\ ticks' = IF Exists(req[p].task) THEN ticks \union {<<req[p].task, req[p].user>>} ELSE ticks
  /\ Finish(p)
  /\ UNCHANGED <<tasks, used, claimant>>

\* Slip: the assignee was right when the state was read.
FinishTaskAnyone(p) ==
  /\ pc[p] = "finish"
  /\ WriteIf(p, Exists(req[p].task) /\ ~Row(p).done, [Row(p) EXCEPT !.done = TRUE])

FinishTask(p) ==
  /\ pc[p] = "finish"
  /\ WriteIf(p, /\ Exists(req[p].task)
                /\ ~Row(p).done
                /\ Row(p).assignee = req[p].user,
             [Row(p) EXCEPT !.done = TRUE])

StartReopen(p) == StartOwn(p, "reopen_role")

\* The service reads the caller's role a second time: do they edit?  Those who
\* have left meanwhile are refused, those who only view go on.
ReopenRole(p) ==
  /\ pc[p] = "reopen_role"
  /\ req' = [req EXCEPT ![p].any = standing[req[p].user] = "editor"]
  /\ pc' = [pc EXCEPT ![p] = "reopen"]
  /\ UNCHANGED <<table, trip>>

ReopenRefused(p) ==
  /\ pc[p] = "reopen_role"
  /\ standing[req[p].user] = "none"
  /\ Stop(p)

Reopen(p) ==
  /\ pc[p] = "reopen"
  /\ IF ~Exists(req[p].task)
       THEN Stop(p)
       ELSE Goto(p, IF Row(p).kind = "everyone" THEN "untick" ELSE "unfinish")

Untick(p) ==
  /\ pc[p] = "untick"
  /\ ticks' = ticks \ {<<req[p].task, req[p].user>>}
  /\ Finish(p)
  /\ UNCHANGED <<tasks, used, claimant>>

Unfinish(p) ==
  /\ pc[p] = "unfinish"
  /\ WriteIf(p, /\ Exists(req[p].task)
                /\ Row(p).done
                /\ req[p].any \/ Row(p).assignee = req[p].user,
             [Row(p) EXCEPT !.done = FALSE])

-----------------------------------------------------------------------------
(***************************************************************************)
(* The environment.                                                        *)
(***************************************************************************)
\* Somebody joins, leaves, is removed or gets another role: nothing is written
\* to the Prep tables.
ChangeStanding(u) ==
  /\ \E s \in Standings : standing' = [standing EXCEPT ![u] = s]
  /\ UNCHANGED <<table, days, everDays, pc, req>>

\* Trip edits do not look at the dates of its tasks.
MoveTrip ==
  /\ days' \in SUBSET Dates
  /\ everDays' = everDays \union days'
  /\ UNCHANGED <<table, standing, pc, req>>

\* The timeout, a disconnect or a crash before the statement commits.
Abort(p) == pc[p] # "idle" /\ Stop(p)

Init ==
  /\ standing \in [Users -> Standings]
  /\ days \in SUBSET Dates
  /\ everDays = days
  /\ tasks = [t \in TaskIds |-> NoTask]
  /\ used = {}
  /\ ticks = {}
  /\ claimant = [t \in TaskIds |-> NoUser]
  /\ pc = [p \in Procs |-> "idle"]
  /\ req = [p \in Procs |-> Nothing]

Start(p) ==
  \/ StartCreate(p) \/ StartUpdate(p) \/ StartDelete(p) \/ StartAssign(p)
  \/ StartClaim(p) \/ StartDrop(p) \/ StartComplete(p) \/ StartReopen(p)

Step(p) ==
  \/ CreateRead(p) \/ CreateWrite(p) \/ UpdateRead(p) \/ UpdateWrite(p) \/ Delete(p)
  \/ AssignRead(p) \/ AssignWrite(p)
  \/ ClaimRead(p) \/ ClaimWrite(p) \/ Drop(p)
  \/ Complete(p) \/ Tick(p) \/ FinishTask(p)
  \/ ReopenRole(p) \/ ReopenRefused(p) \/ Reopen(p) \/ Untick(p) \/ Unfinish(p)

Next ==
  \/ \E p \in Procs : Start(p) \/ Step(p) \/ Abort(p)
  \/ \E u \in Users : ChangeStanding(u)
  \/ MoveTrip

Spec == Init /\ [][Next]_vars

-----------------------------------------------------------------------------
(***************************************************************************)
(* Properties.                                                             *)
(***************************************************************************)

\* No interleaving of assignments, claims, drops and completions leaves a row
\* that the CHECK constraints of prep_tasks would refuse: nobody gets a 500 for
\* racing, and only tasks for everyone have ticks.
RowsConsistent ==
  /\ \A t \in TaskIds : Exists(t) =>
       /\ tasks[t].kind = "everyone" => tasks[t].assignee = NoUser /\ ~tasks[t].done
       /\ tasks[t].done => tasks[t].assignee # NoUser
  /\ \A tick \in ticks : Exists(tick[1]) /\ tasks[tick[1]].kind = "everyone"

\* The inductive invariant behind it: an id is never used twice, so a request
\* that read a task's kind still knows it, and the constraint on everyone tasks
\* holds from the start.
RequestsFit ==
  /\ \A t \in TaskIds : Exists(t) => t \in used
  /\ \A p \in Procs :
       /\ pc[p] # "idle" => req[p].user \in Users
       /\ pc[p] \notin {"idle", "create_read", "create_write"} => req[p].task \in used
       /\ pc[p] \in {"create_read", "create_write"} /\ req[p].kind = "everyone" =>
            req[p].who = NoUser
       /\ pc[p] = "tick" /\ Exists(req[p].task) =>
            tasks[req[p].task].kind = "everyone"

Inv == TypeOK /\ RequestsFit /\ RowsConsistent

\* A saved date has been a day of the trip, whatever the trip did since and
\* however edits of the task and of the trip interleave.
DatesWereDays ==
  \A t \in TaskIds : Exists(t) => DateFits(tasks[t].date, everDays)

\* A finished task keeps its assignee: claims and assignments that were under
\* way when it was finished, or when its assignee left, come too late.
FinishedKeepsAssignee ==
  [][\A t \in TaskIds :
       Exists(t) /\ tasks[t].done /\ tasks'[t] # NoTask
       => tasks'[t].assignee = tasks[t].assignee]_vars

\* A task is finished by the one it is assigned to at that moment, even when
\* it was reassigned after the request looked.
FinishedByAssignee ==
  [][\A t \in TaskIds, p \in Procs :
       /\ Exists(t) /\ ~tasks[t].done
       /\ tasks'[t] # NoTask /\ tasks'[t].done
       /\ pc'[p] # pc[p]
       => tasks[t].assignee = req[p].user]_vars

\* docs/backend/README.md:264 says that concurrent claims have one winner and
\* the others get 409.  Somebody who joined, and claimed, after another claim's
\* statement began is a stranger to that statement's subquery, which then takes
\* over the task they have just won.
ClaimsHaveOneWinner ==
  [][\A p \in Procs :
       /\ pc[p] = "claim_write" /\ tasks' # tasks /\ pc'[p] = "idle"
       /\ Row(p).assignee = claimant[req[p].task]
       /\ Row(p).assignee # req[p].who
       => Row(p).assignee \notin TakingPart]_vars
=============================================================================
