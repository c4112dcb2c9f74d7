------------------------------ MODULE Offboarding -------------------------------
(* One exit request and its checklist: exit-request.service.ts and             *)
(* offboarding-checklist.service.ts.  A call reads and checks, and writes by   *)
(* id after an await.                                                          *)
EXTENDS Naturals, FiniteSets

CONSTANTS
  Template,   \* the tasks of the checklist template
  MaxCopies,  \* bound: how often the checklist is made
  Calls,      \* slots for calls in flight; each is used again and again
  Faults      \* {"abort"}: an await throws or the process dies

VARIABLES
  status,     \* ExitRequest.status, NONE before the row exists
  task,       \* OffboardingChecklistTask rows: the copies made of each task
  copies,     \* checklists made
  interview,  \* is there an ExitInterview with isCompleted?
  events,     \* employee.terminated events
  call,       \* the calls in flight
  disturbed   \* history: two calls overlapped, or one stopped half-way

vars == <<status, task, copies, interview, events, call, disturbed>>

Rows   == Template \X (1..MaxCopies)
NoRow  == <<"norow", 0>>
NoCall == [do |-> "idle", row |-> NoRow]

Statuses == {"NONE", "SUBMITTED", "PENDING_MANAGER_APPROVAL", "APPROVED", "REJECTED",
             "CANCELLED", "CHECKLIST_IN_PROGRESS", "COMPLETED"}

\* EXIT_REQUEST_TRANSITIONS
Allowed(from) ==
  {to \in Statuses :
     \/ from = "SUBMITTED" /\ to \in {"PENDING_MANAGER_APPROVAL", "APPROVED", "CANCELLED"}
     \/ from = "PENDING_MANAGER_APPROVAL" /\ to \in {"APPROVED", "REJECTED", "CANCELLED"}
     \/ from = "APPROVED" /\ to \in {"CHECKLIST_IN_PROGRESS", "CANCELLED"}
     \/ from = "CHECKLIST_IN_PROGRESS" /\ to = "COMPLETED"}

TypeOK ==
  /\ status \in Statuses
  /\ task \in [Rows -> {"NONE", "PENDING", "COMPLETED", "SKIPPED"}]
  /\ copies \in 0..MaxCopies /\ interview \in BOOLEAN /\ events \in Nat
  /\ call \in [Calls -> [do : {"idle", "approve", "reject", "cancel", "complete", "skip",
                               "progress", "promote", "finalize", "emit"},
                         row : Rows \cup {NoRow}]]
  /\ disturbed \in BOOLEAN

Init ==
  /\ status = "NONE" /\ task = [r \in Rows |-> "NONE"] /\ copies = 0
  /\ interview = FALSE /\ events = 0
  /\ call = [c \in Calls |-> NoCall] /\ disturbed = FALSE

Start(c, do, row) ==
  /\ call[c] = NoCall
  /\ call' = [call EXCEPT ![c] = [do |-> do, row |-> row]]
  /\ disturbed' = (disturbed \/ \E b \in Calls : call[b] # NoCall)
  /\ UNCHANGED <<status, task, copies, interview, events>>

At(c, step) == call[c].do = step
Finish(c)   == call' = [call EXCEPT ![c] = NoCall]

\* RESIGNATION waits for the manager, the other reasons do not.
submit ==
  /\ status = "NONE"
  /\ status' \in {"SUBMITTED", "PENDING_MANAGER_APPROVAL"}
  /\ UNCHANGED <<task, copies, interview, events, call, disturbed>>

\* Mutant: the transition is not checked.
ApproveAnyway(c) == status # "NONE" /\ copies < MaxCopies /\ Start(c, "approve", NoRow)

ApproveCheck(c) == "APPROVED" \in Allowed(status) /\ Start(c, "approve", NoRow)
RejectCheck(c)  == "REJECTED" \in Allowed(status) /\ Start(c, "reject", NoRow)
CancelCheck(c)  == "CANCELLED" \in Allowed(status) /\ Start(c, "cancel", NoRow)

\* One transaction: the status, and a checklist.
ApproveWrite(c) ==
  /\ At(c, "approve") /\ copies < MaxCopies
  /\ status' = "APPROVED" /\ copies' = copies + 1
  /\ task' = [r \in Rows |-> IF r[2] = copies' THEN "PENDING" ELSE task[r]]
  /\ Finish(c)
  /\ UNCHANGED <<interview, events, disturbed>>

StatusWrite(c) ==
  /\ call[c].do \in {"reject", "cancel"}
  /\ status' = IF At(c, "reject") THEN "REJECTED" ELSE "CANCELLED"
  /\ Finish(c)
  /\ UNCHANGED <<task, copies, interview, events, disturbed>>

-------------------------------------------------------------------------------
(* The checklist, whatever the status of the request                          *)

CompleteCheck(c, r) == task[r] \in {"PENDING", "SKIPPED"} /\ Start(c, "complete", r)
SkipCheck(c, r)     == task[r] # "NONE" /\ Start(c, "skip", r)

TaskWrite(c) ==
  /\ call[c].do \in {"complete", "skip"}
  /\ task' = [task EXCEPT ![call[c].row] = IF At(c, "skip") THEN "SKIPPED" ELSE "COMPLETED"]
  /\ call' = [call EXCEPT ![c].do = "progress"]
  /\ UNCHANGED <<status, copies, interview, events, disturbed>>

\* maybeTransitionExitStatus
ProgressCheck(c) ==
  /\ At(c, "progress")
  /\ IF status = "APPROVED" /\ \E r \in Rows : task[r] \in {"COMPLETED", "SKIPPED"}
     THEN call' = [call EXCEPT ![c].do = "promote"]
     ELSE Finish(c)
  /\ UNCHANGED <<status, task, copies, interview, events, disturbed>>

ProgressWrite(c) ==
  /\ At(c, "promote")
  /\ status' = "CHECKLIST_IN_PROGRESS" /\ Finish(c)
  /\ UNCHANGED <<task, copies, interview, events, disturbed>>

\* Nothing in the services stores an interview: the row is made in the database.
InterviewHeld ==
  /\ status # "NONE" /\ ~interview /\ interview' = TRUE
  /\ UNCHANGED <<status, task, copies, events, call, disturbed>>

\* Mutant: the tasks are not looked at.
FinalizeUnchecked(c) ==
  status \notin {"NONE", "COMPLETED"} /\ interview /\ Start(c, "finalize", NoRow)

\* Any status but COMPLETED will do, if the interview and the tasks there are are done:
\* a request that nobody approved, or that was rejected, has none.
FinalizeCheck(c) ==
  /\ status \notin {"NONE", "COMPLETED"} /\ interview
  /\ \A r \in Rows : task[r] # "PENDING"
  /\ Start(c, "finalize", NoRow)

FinalizeWrite(c) ==
  /\ At(c, "finalize")
  /\ status' = "COMPLETED" /\ call' = [call EXCEPT ![c].do = "emit"]
  /\ UNCHANGED <<task, copies, interview, events, disturbed>>

Emit(c) ==
  /\ At(c, "emit")
  /\ events' = events + 1 /\ Finish(c)
  /\ UNCHANGED <<status, task, copies, interview, disturbed>>

Abort(c) ==
  /\ "abort" \in Faults /\ call[c] # NoCall
  /\ Finish(c) /\ disturbed' = TRUE
  /\ UNCHANGED <<status, task, copies, interview, events>>

Next ==
  \/ submit \/ InterviewHeld
  \/ \E c \in Calls :
       \/ ApproveCheck(c) \/ RejectCheck(c) \/ CancelCheck(c) \/ ApproveWrite(c) \/ StatusWrite(c)
       \/ \E r \in Rows : CompleteCheck(c, r) \/ SkipCheck(c, r)
       \/ TaskWrite(c) \/ ProgressCheck(c) \/ ProgressWrite(c)
       \/ FinalizeCheck(c) \/ FinalizeWrite(c) \/ Emit(c) \/ Abort(c)

Spec == Init /\ [][Next]_vars

-------------------------------------------------------------------------------
\* Even if calls overlap, a request with no checklist is not waiting for one to be done.
\* Unless they did or stopped half-way, and between calls: a request has one checklist
\* at most; a completed one has the interview done and no task left of the checklist it
\* may have, and was announced once, and no other was; and an approved one has no task
\* done yet.  That a completed request was approved does not hold: finalizeExit does not
\* ask for it, and exit-request.service.spec.ts:110, which refuses SUBMITTED ->
\* COMPLETED, has a request without the fields that it does ask for.
DoneMeansAllDone ==
  /\ copies = 0 => status \notin {"APPROVED", "CHECKLIST_IN_PROGRESS"}
  /\ ~disturbed /\ (\A c \in Calls : call[c] = NoCall) =>
       /\ copies <= 1
       /\ IF status = "COMPLETED"
          THEN events = 1 /\ interview /\ \A r \in Rows : task[r] # "PENDING"
          ELSE events = 0
       /\ status = "APPROVED" => \A r \in Rows : task[r] \in {"NONE", "PENDING"}
===============================================================================
