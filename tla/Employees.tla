------------------------------ MODULE Employees --------------------------------
(* Employees from hire to exit, and the import of employees from a file:      *)
(* employees.service.ts, employee.repository.ts, bulk-import.service.ts,      *)
(* employee-event.handlers.ts.                                                *)
(*                                                                            *)
(* A lifecycle change is one transaction over the row and its history; the    *)
(* audit row and the event follow it.  A placement (department, title,        *)
(* location, manager) is named by the history row that records it, 0 if none  *)
(* does; a pay grade by the row of the change that gave it, 0 for null or for *)
(* one that update gave.  An employee number stands for the work address too. *)
EXTENDS Naturals, Sequences, FiniteSets

CONSTANTS
  Employees,   \* Employee rows
  MaxNumber,   \* bound: employee numbers are 1..MaxNumber
  File,        \* the rows of the imported file: employee numbers, 0 for an invalid row
  Calls,       \* slots for API calls in flight, and the import
  MaxEvents,   \* bound: history rows of an employee
  Faults       \* {"abort": a call stops half-way, "audit": recording fails}

VARIABLES
  emp,       \* Employee rows
  history,   \* EmploymentHistory, by employee: the eventTypes
  grades,    \* ... and the payGradeIds of the same rows
  audited,   \* by employee, the lifecycle changes with an audit row
  queued,    \* by employee, the jobs queued in memory by the event handlers
  job,       \* the BulkImportJob row, and the counters of the running import
  call,      \* the calls in flight
  patched,   \* history: employees whose row update() has changed
  disturbed  \* history: two calls overlapped, or one stopped half-way

rows == <<emp, history, grades>>
logs == <<audited, queued>>
vars == <<rows, logs, job, call, patched, disturbed>>

Nobody == "nobody"
Events == {"HIRED", "PROMOTED", "TRANSFERRED", "TERMINATED"}
Absent == [state |-> "none", number |-> 0, status |-> "ACTIVE", place |-> 0, grade |-> 0]
NoCall == [do |-> "idle", emp |-> Nobody, number |-> 0, event |-> "none", row |-> 0]
Jobs   == {"welcome_email", "onboarding_tasks_stub", "access_revocation"}

TypeOK ==
  /\ emp \in [Employees -> [state : {"none", "live", "deleted"}, number : 0..MaxNumber,
                            status : {"ACTIVE", "TERMINATED"}, place : Nat, grade : Nat]]
  /\ \A e \in Employees : /\ history[e] \in Seq(Events) /\ grades[e] \in Seq(Nat)
                          /\ queued[e] \in Seq(Jobs)
  /\ audited \in [Employees -> Nat]
  /\ job \in [status : {"NONE", "PENDING", "PROCESSING", "COMPLETED"}, ok : Nat, failed : Nat,
              hired : SUBSET Employees]
  /\ call \in [Calls -> [do : {"idle", "number", "unique", "write", "audit", "event",
                               "start", "row", "complete", "delete"},
                         emp : Employees \cup {Nobody}, number : 0..MaxNumber,
                         event : Events \cup {"none"}, row : Nat]]
  /\ patched \subseteq Employees /\ disturbed \in BOOLEAN

Init ==
  /\ emp = [e \in Employees |-> Absent] /\ history = [e \in Employees |-> <<>>]
  /\ grades = [e \in Employees |-> <<>>]
  /\ audited = [e \in Employees |-> 0] /\ queued = [e \in Employees |-> <<>>]
  /\ job = [status |-> "NONE", ok |-> 0, failed |-> 0, hired |-> {}]
  /\ call = [c \in Calls |-> NoCall] /\ patched = {} /\ disturbed = FALSE

Live(e)  == emp[e].state = "live"
Busy     == \E c \in Calls : call[c] # NoCall
At(c, s) == call[c].do = s
Goto(c, s) == call' = [call EXCEPT ![c].do = s]

Start(c, next) ==
  /\ call[c] = NoCall
  /\ call' = [call EXCEPT ![c] = next]
  /\ disturbed' = (disturbed \/ Busy)

\* A row not yet made, and not about to be made by another call.
Fresh(e) == emp[e].state = "none" /\ \A c \in Calls : call[c].emp # e

\* The end of a call; the import goes on with its next row.
Return(c) ==
  call' = [call EXCEPT ![c] = IF call[c].row = 0 THEN NoCall
                              ELSE [NoCall EXCEPT !.do = "row", !.row = call[c].row + 1]]

-------------------------------------------------------------------------------
(* hireEmployee                                                               *)

\* The number is given, or made from the count of all rows: any number at all.
Hire(c, e, n) ==
  /\ Fresh(e)
  /\ Start(c, [NoCall EXCEPT !.do = "unique", !.emp = e, !.number = n, !.event = "HIRED"])
  /\ UNCHANGED <<rows, logs, job, patched>>

\* Bound: one fault in a behaviour.
Spent == IF disturbed THEN Faults ELSE {}

Fail(c) == job' = IF call[c].row = 0 THEN job ELSE [job EXCEPT !.failed = @ + 1]

\* assertEmployeeUnique looks at the rows that are not deleted ...
assertEmployeeUnique(c) ==
  /\ At(c, "unique")
  /\ IF \E e \in Employees : Live(e) /\ emp[e].number = call[c].number
     THEN Return(c) /\ Fail(c)
     ELSE Goto(c, "write") /\ UNCHANGED job
  /\ UNCHANGED <<rows, logs, patched, disturbed>>

Log(e, event, grade) ==
  /\ history' = [history EXCEPT ![e] = Append(@, event)]
  /\ grades' = [grades EXCEPT ![e] = Append(@, grade)]

\* ... and the unique index at all of them.  A pay grade is optional.
HireWrite(c) ==
  /\ At(c, "write") /\ call[c].event = "HIRED"
  /\ LET e == call[c].emp IN
       IF \E b \in Employees : emp[b].state # "none" /\ emp[b].number = call[c].number
       THEN Return(c) /\ Fail(c) /\ UNCHANGED rows
       ELSE /\ \E grade \in {0, 1} :
                 /\ emp' = [emp EXCEPT ![e] = [state |-> "live", number |-> call[c].number,
                                                status |-> "ACTIVE", place |-> 1, grade |-> grade]]
                 /\ Log(e, "HIRED", grade)
            /\ Goto(c, "audit") /\ UNCHANGED job
  /\ UNCHANGED <<logs, patched, disturbed>>

-------------------------------------------------------------------------------
(* promoteEmployee, transferEmployee, terminateEmployee, update, remove       *)

\* Mutant: a terminated employee can be terminated again.
TerminateAgain(c, e, event) ==
  /\ Live(e) /\ Len(history[e]) < MaxEvents
  /\ Start(c, [NoCall EXCEPT !.do = "write", !.emp = e, !.event = event])
  /\ UNCHANGED <<rows, logs, job, patched>>

LifecycleCheck(c, e, event) ==
  /\ Live(e) /\ Len(history[e]) < MaxEvents
  /\ event = "TERMINATED" => emp[e].status # "TERMINATED"
  /\ Start(c, [NoCall EXCEPT !.do = "write", !.emp = e, !.event = event])
  /\ UNCHANGED <<rows, logs, job, patched>>

\* A promotion without a pay grade leaves the row its own, and says null in the history;
\* every other change records the placement of the row.
LifecycleWrite(c) ==
  /\ At(c, "write") /\ call[c].event # "HIRED"
  /\ LET e == call[c].emp
         place == Len(history[e]) + 1 IN
       \/ \E grade \in {0, place} :
            /\ call[c].event = "PROMOTED"
            /\ emp' = [emp EXCEPT ![e].place = place,
                                  ![e].grade = IF grade = 0 THEN @ ELSE grade]
            /\ Log(e, "PROMOTED", grade)
       \/ /\ call[c].event = "TRANSFERRED"
          /\ emp' = [emp EXCEPT ![e].place = place]
          /\ Log(e, "TRANSFERRED", emp[e].grade)
       \/ /\ call[c].event = "TERMINATED"
          /\ emp' = [emp EXCEPT ![e].place = place, ![e].status = "TERMINATED"]
          /\ Log(e, "TERMINATED", emp[e].grade)
  /\ Goto(c, "audit")
  /\ UNCHANGED <<logs, job, patched, disturbed>>

\* update patches status, placement and grade without a history row (bound: once each).
update(e) ==
  /\ Live(e) /\ e \notin patched
  /\ \E s \in {"ACTIVE", "TERMINATED"} :
       emp' = [emp EXCEPT ![e].place = 0, ![e].grade = 0, ![e].status = s]
  /\ patched' = patched \cup {e}
  /\ UNCHANGED <<history, grades, logs, job, call, disturbed>>

RemoveCheck(c, e) ==
  /\ Live(e) /\ Start(c, [NoCall EXCEPT !.do = "delete", !.emp = e])
  /\ UNCHANGED <<rows, logs, job, patched>>

RemoveWrite(c) ==
  /\ At(c, "delete")
  /\ emp' = [emp EXCEPT ![call[c].emp].state = "deleted"]
  /\ Return(c)
  /\ UNCHANGED <<history, grades, logs, job, patched, disturbed>>

\* After the transaction: the audit row, then the event, handled in memory.
Audit(c) ==
  /\ At(c, "audit")
  /\ audited' = [audited EXCEPT ![call[c].emp] = @ + 1] /\ Goto(c, "event")
  /\ UNCHANGED <<rows, queued, job, patched, disturbed>>

\* The caller, and the import, see an error although the change is committed.
AuditFails(c) ==
  /\ "audit" \in Faults \ Spent /\ At(c, "audit")
  /\ Return(c) /\ Fail(c) /\ disturbed' = TRUE
  /\ UNCHANGED <<rows, logs, patched>>

JobsFor(event) ==
  IF event = "HIRED" THEN <<"welcome_email", "onboarding_tasks_stub">>
  ELSE IF event = "TERMINATED" THEN <<"access_revocation">> ELSE <<>>

Emit(c) ==
  /\ At(c, "event")
  /\ queued' = [queued EXCEPT ![call[c].emp] = @ \o JobsFor(call[c].event)]
  /\ job' = IF call[c].row = 0 THEN job
            ELSE [job EXCEPT !.ok = @ + 1, !.hired = @ \cup {call[c].emp}]
  /\ Return(c)
  /\ UNCHANGED <<rows, audited, patched, disturbed>>

-------------------------------------------------------------------------------
(* The import, in the background of the process that took the request         *)

createEmployeeImportJob(c) ==
  /\ job.status = "NONE"
  /\ job' = [job EXCEPT !.status = "PENDING"]
  /\ Start(c, [NoCall EXCEPT !.do = "start", !.row = 1])
  /\ UNCHANGED <<rows, logs, patched>>

ImportStart(c) ==
  /\ At(c, "start")
  /\ job' = [job EXCEPT !.status = "PROCESSING"] /\ Goto(c, "row")
  /\ UNCHANGED <<rows, logs, patched, disturbed>>

\* validateRow, and on to hireEmployee, or to the errors.
ImportRow(c) ==
  /\ At(c, "row") /\ call[c].row <= Len(File)
  /\ LET n == File[call[c].row] IN
       IF n = 0 \/ \E e \in Employees : Live(e) /\ emp[e].number = n
       THEN Return(c) /\ Fail(c)
       ELSE /\ \E e \in Employees : Fresh(e) /\ call' = [call EXCEPT ![c] =
                  [@ EXCEPT !.do = "unique", !.emp = e, !.number = n, !.event = "HIRED"]]
            /\ UNCHANGED job
  /\ UNCHANGED <<rows, logs, patched, disturbed>>

ImportComplete(c) ==
  /\ At(c, "row") /\ call[c].row > Len(File)
  /\ job' = [job EXCEPT !.status = "COMPLETED"]
  /\ call' = [call EXCEPT ![c] = NoCall]
  /\ UNCHANGED <<rows, logs, patched, disturbed>>

Abort(c) ==
  /\ "abort" \in Faults \ Spent /\ call[c] # NoCall
  /\ call' = [call EXCEPT ![c] = NoCall] /\ disturbed' = TRUE
  /\ UNCHANGED <<rows, logs, job, patched>>

Next ==
  \/ \E c \in Calls :
       \/ \E e \in Employees :
            \/ \E n \in 1..MaxNumber : Hire(c, e, n)
            \/ RemoveCheck(c, e)
            \/ \E event \in Events \ {"HIRED"} : LifecycleCheck(c, e, event)
       \/ assertEmployeeUnique(c) \/ HireWrite(c) \/ LifecycleWrite(c) \/ RemoveWrite(c)
       \/ Audit(c) \/ AuditFails(c) \/ Emit(c)
       \/ createEmployeeImportJob(c) \/ ImportStart(c) \/ ImportRow(c) \/ ImportComplete(c)
       \/ Abort(c)
  \/ \E e \in Employees : update(e)

Spec == Init /\ [][Next]_vars

-------------------------------------------------------------------------------
Occurs(s, x) == Cardinality({i \in DOMAIN s : s[i] = x})

\* The last of the grades that names one is at i, or none does.
LastGrade(list, i) ==
  /\ i > 0 => list[i] # 0
  /\ \A k \in i + 1..Len(list) : list[k] = 0

\* Whatever overlaps or fails: unless update changed his row, an employee's history
\* begins with the hire and ends with the placement of the row, a termination is in it
\* if and only if he is terminated, and his grade is the last that it names; its last
\* row says that grade, unless it is a promotion.  Every imported row is accounted for
\* once, and nobody is counted that was not hired.  If nothing overlapped and nothing
\* failed, each change has its audit row and its jobs in the queues, and an employee is
\* terminated once.
EmploymentIsOnRecord ==
  /\ \A e \in Employees \ patched : emp[e].state # "none" =>
       LET n == Len(history[e]) IN
       /\ history[e][1] = "HIRED" /\ emp[e].place = n
       /\ emp[e].status = "TERMINATED" <=> Occurs(history[e], "TERMINATED") > 0
       /\ \E i \in 0..n : /\ LastGrade(grades[e], i)
                          /\ emp[e].grade = IF i = 0 THEN 0 ELSE grades[e][i]
       /\ grades[e][n] = emp[e].grade \/ history[e][n] = "PROMOTED"
  /\ job.status = "COMPLETED" => job.ok + job.failed = Len(File)
  /\ \A e \in job.hired : emp[e].state # "none"
  /\ ~disturbed /\ ~Busy =>
       \A e \in Employees :
         /\ audited[e] = Len(history[e])
         /\ \A x \in Events : \A i \in DOMAIN JobsFor(x) :
              Occurs(queued[e], JobsFor(x)[i]) = Occurs(history[e], x)
         /\ e \notin patched => Occurs(history[e], "TERMINATED") <= 1
===============================================================================
