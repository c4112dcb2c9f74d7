------------------------------- MODULE Onboarding -------------------------------
(* One onboarding template and its assignment to one employee:                 *)
(* onboarding-template.service.ts and onboarding-assignment.service.ts.  A     *)
(* transaction sees what is committed and what it wrote itself.                *)
EXTENDS FiniteSets

CONSTANTS
  Tasks,   \* tasks a template can have
  Calls,   \* slots for calls in flight; each is used again and again
  Faults   \* {"abort"}: an await throws or the process dies

VARIABLES
  template,   \* OnboardingTemplate: status, and OnboardingTemplateTask rows
  status,     \* EmployeeOnboarding.status, NONE before the row exists
  task,       \* OnboardingTaskInstance.status
  announced,  \* was onboarding.completed emitted?
  call,       \* the calls in flight; zero: the transaction counted no pending task
  overlap,    \* history: two calls have overlapped
  aborted     \* history: a call stopped half-way

vars == <<template, status, task, announced, call, overlap, aborted>>

NoTask == "notask"
NoCall == [do |-> "idle", task |-> NoTask, tasks |-> {}, zero |-> FALSE]

TypeOK ==
  /\ template \in [status : {"DRAFT", "ACTIVE", "ARCHIVED"}, tasks : SUBSET Tasks]
  /\ status \in {"NONE", "IN_PROGRESS", "COMPLETED", "CANCELLED"}
  /\ task \in [Tasks -> {"NONE", "PENDING", "COMPLETED", "SKIPPED"}]
  /\ announced \in BOOLEAN /\ overlap \in BOOLEAN /\ aborted \in BOOLEAN
  /\ call \in [Calls -> [do : {"idle", "add", "assign", "complete", "commit", "cancel"},
                         task : Tasks \cup {NoTask}, tasks : SUBSET Tasks, zero : BOOLEAN]]

Init ==
  /\ template = [status |-> "DRAFT", tasks |-> {}] /\ status = "NONE"
  /\ task = [t \in Tasks |-> "NONE"] /\ announced = FALSE
  /\ call = [c \in Calls |-> NoCall] /\ overlap = FALSE /\ aborted = FALSE

Pending == {t \in Tasks : task[t] = "PENDING"}

Start(c, next) ==
  /\ call[c] = NoCall
  /\ call' = [call EXCEPT ![c] = next]
  /\ overlap' = (overlap \/ \E b \in Calls : call[b] # NoCall)
  /\ UNCHANGED <<template, status, task, announced, aborted>>

Finish(c) == call' = [call EXCEPT ![c] = NoCall]

-------------------------------------------------------------------------------
(* The template.  Nothing in the services makes one ACTIVE: the row is        *)
(* updated in the database.                                                   *)

Activate ==
  /\ template.status = "DRAFT"
  /\ template' = [template EXCEPT !.status = "ACTIVE"]
  /\ UNCHANGED <<status, task, announced, call, overlap, aborted>>

archiveTemplate ==
  /\ template' = [template EXCEPT !.status = "ARCHIVED"]
  /\ UNCHANGED <<status, task, announced, call, overlap, aborted>>

removeTask(t) ==
  /\ t \in template.tasks
  /\ template' = [template EXCEPT !.tasks = @ \ {t}]
  /\ UNCHANGED <<status, task, announced, call, overlap, aborted>>

AddTaskCheck(c, t) ==
  /\ template.status # "ARCHIVED" /\ t \notin template.tasks
  /\ Start(c, [NoCall EXCEPT !.do = "add", !.task = t])

AddTaskWrite(c) ==
  /\ call[c].do = "add"
  /\ template' = [template EXCEPT !.tasks = @ \cup {call[c].task}]
  /\ Finish(c)
  /\ UNCHANGED <<status, task, announced, overlap, aborted>>

-------------------------------------------------------------------------------
(* The assignment                                                             *)

AssignCheck(c) ==
  /\ template.status = "ACTIVE" /\ status = "NONE"
  /\ Start(c, [NoCall EXCEPT !.do = "assign", !.tasks = template.tasks])

\* The tasks are those that were read; the unique index refuses a second row.
AssignWrite(c) ==
  /\ call[c].do = "assign"
  /\ IF status = "NONE"
     THEN /\ status' = "IN_PROGRESS"
          /\ task' = [t \in Tasks |-> IF t \in call[c].tasks THEN "PENDING" ELSE "NONE"]
     ELSE UNCHANGED <<status, task>>
  /\ Finish(c)
  /\ UNCHANGED <<template, announced, overlap, aborted>>

CompleteCheck(c, t) ==
  /\ t \in Pending
  /\ Start(c, [NoCall EXCEPT !.do = "complete", !.task = t])

Locked(t) == \E b \in Calls : call[b].do = "commit" /\ call[b].task = t

\* The transaction up to the count; what is counted is announced at once.
CountWith(c, mine) ==
  /\ call[c].do = "complete" /\ ~Locked(call[c].task)
  /\ LET zero == Pending \ mine = {} IN
       /\ call' = [call EXCEPT ![c].do = "commit", ![c].zero = zero]
       /\ announced' = (announced \/ zero)
  /\ UNCHANGED <<template, status, task, overlap, aborted>>

\* Mutant: the tasks are counted before this one is updated.
CountFirst(c) == CountWith(c, {})

CompleteCount(c) == CountWith(c, {call[c].task})

CompleteCommit(c) ==
  /\ call[c].do = "commit"
  /\ task' = [task EXCEPT ![call[c].task] = "COMPLETED"]
  /\ status' = IF call[c].zero THEN "COMPLETED" ELSE status
  /\ Finish(c)
  /\ UNCHANGED <<template, announced, overlap, aborted>>

\* Whatever the status is.
CancelCheck(c) == status # "NONE" /\ Start(c, [NoCall EXCEPT !.do = "cancel"])

\* The update of the pending tasks waits for those another transaction has locked.
CancelWrite(c) ==
  /\ call[c].do = "cancel" /\ ~\E t \in Pending : Locked(t)
  /\ status' = "CANCELLED"
  /\ task' = [t \in Tasks |-> IF t \in Pending THEN "SKIPPED" ELSE task[t]]
  /\ Finish(c)
  /\ UNCHANGED <<template, announced, overlap, aborted>>

Abort(c) ==
  /\ "abort" \in Faults /\ call[c] # NoCall
  /\ Finish(c) /\ aborted' = TRUE
  /\ UNCHANGED <<template, status, task, announced, overlap>>

Next ==
  \/ Activate \/ archiveTemplate \/ \E t \in Tasks : removeTask(t)
  \/ \E c \in Calls :
       \/ \E t \in Tasks : AddTaskCheck(c, t) \/ CompleteCheck(c, t)
       \/ AddTaskWrite(c) \/ AssignCheck(c) \/ AssignWrite(c)
       \/ CompleteCount(c) \/ CompleteCommit(c) \/ CancelCheck(c) \/ CancelWrite(c) \/ Abort(c)

Spec == Init /\ [][Next]_vars

-------------------------------------------------------------------------------
\* Even if calls overlap, an onboarding that is over has no task left to do; unless
\* they did, one whose tasks are all done is over, and none is announced that is
\* not, or was not cancelled, unless a call stopped half-way.
DoneMeansAllDone ==
  LET tasks == {t \in Tasks : task[t] # "NONE"}
      over  == status \in {"COMPLETED", "CANCELLED"}
  IN  /\ over => Pending = {}
      /\ ~overlap => /\ tasks # {} /\ Pending = {} => over
                     /\ announced /\ ~aborted /\ (\A c \in Calls : call[c].do # "commit") => over
===============================================================================
