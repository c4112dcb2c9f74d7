----------------------------- MODULE PayrollCycle -----------------------------
(* One monthly payroll cycle of one company: the HTTP handlers of             *)
(* payroll-cycle.service.ts, the payroll_run worker (payroll-run.processor.ts)*)
(* and the payslip_gen worker (payslip-gen.processor.ts), sharing PostgreSQL  *)
(* and two BullMQ queues.                                                     *)
(*                                                                            *)
(* A step is what the code does between two awaits: one query, one            *)
(* transaction or one queue call.  A handler reads the cycle, checks its      *)
(* status and only later writes by id alone, so handlers interleave.          *)
EXTENDS Naturals

CONSTANTS
  Employees,        \* employees of the company
  Requests,         \* API calls on the cycle; each ends at most once
  SerialRequests,   \* TRUE: an API call starts only when no other is in flight
  SingleRunWorker,  \* TRUE: one payroll_run job at a time
  Faults            \* what may go wrong

FaultKinds ==
  {"abort",          \* an await of a handler throws, or the API process dies
   "stall",          \* a worker dies; BullMQ redelivers its job once
   "fetch_error",    \* a query of the run worker throws before its transaction
   "save_error",     \* the run's transaction rolls back (time-out, lost connection)
   "ack_lost",       \* the run's transaction commits but its client sees an error
   "revert_error",   \* the write that puts the cycle back to DRAFT throws
   "payslip_error"}  \* a step of the payslip worker throws

ASSUME PayrollAssumption == /\ SerialRequests \in BOOLEAN
                            /\ SingleRunWorker \in BOOLEAN
                            /\ Faults \subseteq FaultKinds

CycleStatus ==
  {"NONE", "DRAFT", "PROCESSING", "COMPUTED", "APPROVED", "DISBURSED", "REVERSED"}
EntryStatus == {"NONE", "COMPUTED", "HELD", "APPROVED", "DISBURSED", "REVERSED"}

\* No HELD row is ever stored, see CanStore.
StoredStatus == EntryStatus \ {"HELD"}

\* What a run decided for each employee: not active, computed, or held because
\* the salary is missing or its computation threw.
Plans == [Employees -> {"NONE", "COMPUTED", "HELD"}]

VARIABLES
  status,     \* PayrollCycle.status
  counted,    \* the employees that totalGross, totalDeductions, totalNet add up
  entry,      \* PayrollEntry.status by employee
  pc, todo,   \* where each API call stands; the payslip jobs it has yet to add
  run,        \* the payroll_run job each run call enqueued
  slip,       \* the payslip_gen jobs each disburse call enqueued
  payslips,   \* Payslip rows by employee
  stamped,    \* entries with a payslipKey
  genFailed   \* entries with payslipGenFailed

db    == <<status, counted, entry>>
files == <<payslips, stamped, genFailed>>
calls == <<pc, todo>>
vars  == <<db, calls, run, slip, files>>

Idle == "idle"
Done == "done"
PCs == {Idle, "create", "run", "enqueueRun", "approveHeld", "approve",
        "disburse", "list", "enqueueSlips", "reverse", Done}
JobStates == {"none", "waiting", "active", "txfailed", "acking", "ended"}
RunJobs == [at : JobStates, plan : Plans, again : BOOLEAN]
SlipStates == {"none", "waiting", "created", "acking", "ended"}
SlipJobs == [at : SlipStates, again : BOOLEAN]

NoJob == [at |-> "none", again |-> FALSE]
NoPlan == [e \in Employees |-> "NONE"]

TypeOK == /\ status \in CycleStatus
          /\ counted \in SUBSET Employees
          /\ entry \in [Employees -> StoredStatus]
          /\ pc \in [Requests -> PCs]
          /\ todo \in [Requests -> SUBSET Employees]
          /\ run \in [Requests -> RunJobs]
          /\ slip \in [Requests -> [Employees -> SlipJobs]]
          /\ payslips \in [Employees -> Nat]
          /\ stamped \in SUBSET Employees
          /\ genFailed \in SUBSET Employees

Init == /\ status = "NONE"
        /\ counted = {}
        /\ entry = [e \in Employees |-> "NONE"]
        /\ pc = [q \in Requests |-> Idle]
        /\ todo = [q \in Requests |-> {}]
        /\ run = [q \in Requests |-> [at |-> "none", plan |-> NoPlan, again |-> FALSE]]
        /\ slip = [q \in Requests |-> [e \in Employees |-> NoJob]]
        /\ payslips = [e \in Employees |-> 0]
        /\ stamped = {}
        /\ genFailed = {}

-------------------------------------------------------------------------------
(* API calls.  A call the status check refuses changes nothing and is left    *)
(* out: q stays idle.                                                         *)

Goto(q, l) == pc' = [pc EXCEPT ![q] = l]

\* updateMany: every entry whose status is in old becomes new.
Move(old, new) == [e \in Employees |-> IF entry[e] \in old THEN new ELSE entry[e]]

\* findFirst and the status check every handler starts with.
Admit(q, allowed, next) ==
  /\ pc[q] = Idle
  /\ SerialRequests => \A p \in Requests : pc[p] \in {Idle, Done}
  /\ status \in allowed
  /\ Goto(q, next)
  /\ UNCHANGED <<db, todo, run, slip, files>>

CreateCheck(q)   == Admit(q, {"NONE"}, "create")
RunCheck(q)      == Admit(q, {"DRAFT"}, "run")
ApproveCheck(q)  == Admit(q, {"COMPUTED"}, "approveHeld")

\* Mutant: a disbursed cycle may be disbursed again.
DisburseAgain(q) == Admit(q, {"APPROVED", "DISBURSED"}, "disburse")

DisburseCheck(q) == Admit(q, {"APPROVED"}, "disburse")
ReverseCheck(q)  == Admit(q, {"APPROVED", "DISBURSED"}, "reverse")

\* The unique index on company, month and year rejects a second row.
CreateInsert(q) ==
  /\ pc[q] = "create"
  /\ status' = IF status = "NONE" THEN "DRAFT" ELSE status
  /\ Goto(q, Done)
  /\ UNCHANGED <<counted, entry, todo, run, slip, files>>

\* "Status fence to prevent double-runs": an update by id.
RunFence(q) ==
  /\ pc[q] = "run"
  /\ status' = "PROCESSING"
  /\ Goto(q, "enqueueRun")
  /\ UNCHANGED <<counted, entry, todo, run, slip, files>>

RunEnqueue(q) ==
  /\ pc[q] = "enqueueRun"
  /\ run' = [run EXCEPT ![q].at = "waiting"]
  /\ Goto(q, Done)
  /\ UNCHANGED <<db, todo, slip, files>>

ApproveCountHeld(q) ==
  /\ pc[q] = "approveHeld"
  /\ Goto(q, IF \E e \in Employees : entry[e] = "HELD" THEN Done ELSE "approve")
  /\ UNCHANGED <<db, todo, run, slip, files>>

\* One transaction: the cycle by id, then updateMany on its entries.
Commit(q, here, new, old, next) ==
  /\ pc[q] = here
  /\ status' = new
  /\ entry' = Move(old, new)
  /\ Goto(q, next)
  /\ UNCHANGED <<counted, todo, run, slip, files>>

\* Mutant: the updateMany forgets its filter on the status.
ApproveAllEntries(q) == Commit(q, "approve", "APPROVED", EntryStatus \ {"NONE"}, Done)

\* Mutant: approval forgets the entries.
ApproveCycleOnly(q) == Commit(q, "approve", "APPROVED", {}, Done)

ApproveCommit(q)  == Commit(q, "approve", "APPROVED", {"COMPUTED"}, Done)
DisburseCommit(q) == Commit(q, "disburse", "DISBURSED", {"APPROVED"}, "list")
ReverseCommit(q)  == Commit(q, "reverse", "REVERSED", EntryStatus \ {"NONE"}, Done)

ListEntries(q, wanted) ==
  /\ pc[q] = "list"
  /\ todo' = [todo EXCEPT ![q] = {e \in Employees : entry[e] \in wanted}]
  /\ Goto(q, "enqueueSlips")
  /\ UNCHANGED <<db, run, slip, files>>

\* Mutants: the entries are listed whatever their status, or by the old status.
ListAllEntries(q)      == ListEntries(q, EntryStatus \ {"NONE"})
ListApprovedEntries(q) == ListEntries(q, {"APPROVED"})

\* The entries are read again after the commit.
DisburseList(q) == ListEntries(q, {"DISBURSED"})

DisburseEnqueue(q, e) ==
  /\ pc[q] = "enqueueSlips"
  /\ e \in todo[q]
  /\ slip' = [slip EXCEPT ![q][e].at = "waiting"]
  /\ todo' = [todo EXCEPT ![q] = @ \ {e}]
  /\ UNCHANGED <<db, pc, run, files>>

DisburseReturn(q) ==
  /\ pc[q] = "enqueueSlips"
  /\ todo[q] = {}
  /\ Goto(q, Done)
  /\ UNCHANGED <<db, todo, run, slip, files>>

\* An exception or a crash between two awaits: what is committed stays.
Abort(q) ==
  /\ "abort" \in Faults
  /\ pc[q] \notin {Idle, Done}
  /\ Goto(q, Done)
  /\ todo' = [todo EXCEPT ![q] = {}]
  /\ UNCHANGED <<db, run, slip, files>>

Call(q) ==
  \/ CreateInsert(q) \/ RunFence(q) \/ RunEnqueue(q)
  \/ ApproveCountHeld(q) \/ ApproveCommit(q)
  \/ DisburseCommit(q) \/ DisburseList(q) \/ DisburseReturn(q)
  \/ \E e \in Employees : DisburseEnqueue(q, e)
  \/ ReverseCommit(q)

-------------------------------------------------------------------------------
(* The payroll_run worker.  Neither queue sets "attempts", so a job whose     *)
(* handler throws is not delivered again; only a stalled one is, once.        *)

AtWork == {"active", "txfailed", "acking"}

\* The plan lives in the handler's memory until it leaves "active".
JobGoto(q, l) == run' = [run EXCEPT ![q].at = l, ![q].plan = NoPlan]

PickUp(q) ==
  /\ run[q].at = "waiting"
  /\ SingleRunWorker => \A p \in Requests : run[p].at \notin AtWork

\* The reads and the computation of all employees, ending before the transaction.
ComputeAt(q, allowed) ==
  /\ PickUp(q)
  /\ status \in allowed
  /\ \E plan \in Plans : run' = [run EXCEPT ![q].at = "active", ![q].plan = plan]
  /\ UNCHANGED <<db, calls, slip, files>>

\* Mutant: no idempotency guard on the status.
JobComputeAnyway(q) == ComputeAt(q, CycleStatus)

JobCompute(q) == ComputeAt(q, {"PROCESSING"})

JobSkip(q) ==
  /\ PickUp(q)
  /\ status # "PROCESSING"
  /\ JobGoto(q, "acking")
  /\ UNCHANGED <<db, calls, slip, files>>

\* A query before the transaction throws: no handler puts the cycle back.
JobFetchFails(q) ==
  /\ "fetch_error" \in Faults
  /\ run[q].at = "active"
  /\ JobGoto(q, "acking")
  /\ UNCHANGED <<db, calls, slip, files>>

\* Mutant: a held entry can be stored.
CanStoreHeld(plan) == \A e \in Employees : plan[e] = "NONE" \/ entry[e] = "NONE"

\* A held entry has structureId '', which the uuid foreign key refuses, and
\* (cycleId, employeeId) is unique.
CanStore(plan) ==
  \A e \in Employees : \/ plan[e] = "NONE"
                       \/ plan[e] = "COMPUTED" /\ entry[e] = "NONE"

Store(plan) ==
  /\ entry' = [e \in Employees |-> IF plan[e] = "NONE" THEN entry[e] ELSE plan[e]]
  /\ counted' = {e \in Employees : plan[e] = "COMPUTED"}
  /\ status' = "COMPUTED"

JobSave(q) ==
  /\ run[q].at = "active"
  /\ CanStore(run[q].plan)
  /\ Store(run[q].plan)
  /\ \/ JobGoto(q, "acking")
     \/ "ack_lost" \in Faults /\ JobGoto(q, "txfailed")
  /\ UNCHANGED <<calls, slip, files>>

JobSaveFails(q) ==
  /\ run[q].at = "active"
  /\ ~CanStore(run[q].plan) \/ "save_error" \in Faults
  /\ JobGoto(q, "txfailed")
  /\ UNCHANGED <<db, calls, slip, files>>

JobThrow(q) ==
  /\ run[q].at = "txfailed"
  /\ JobGoto(q, "acking")
  /\ UNCHANGED <<counted, entry, calls, slip, files>>

\* Mutant: the catch block rethrows without putting the cycle back.
JobRethrow(q) == JobThrow(q) /\ UNCHANGED status

\* The catch block: back to DRAFT by id, whatever the status is now.
JobRevert(q) == status' = "DRAFT" /\ JobThrow(q)

JobRevertFails(q) == "revert_error" \in Faults /\ JobThrow(q) /\ UNCHANGED status

\* The worker tells BullMQ that the job completed or failed.
JobEnd(q) ==
  /\ run[q].at = "acking"
  /\ JobGoto(q, "ended")
  /\ UNCHANGED <<db, calls, slip, files>>

JobStall(q) ==
  /\ "stall" \in Faults
  /\ run[q].at \in AtWork
  /\ run' = [run EXCEPT ![q] = [at |-> IF @.again THEN "ended" ELSE "waiting",
                                plan |-> NoPlan, again |-> TRUE]]
  /\ UNCHANGED <<db, calls, slip, files>>

RunJob(q) ==
  JobCompute(q) \/ JobSkip(q) \/ JobSave(q) \/ JobSaveFails(q) \/ JobRevert(q) \/ JobEnd(q)

-------------------------------------------------------------------------------
(* The payslip_gen worker.  It does not look at the entry's status, and       *)
(* nothing stops a second Payslip row for the same entry.                     *)

SlipGoto(q, e, l) == slip' = [slip EXCEPT ![q][e].at = l]

SlipCreate(q, e) ==
  /\ slip[q][e].at = "waiting"
  /\ payslips' = [payslips EXCEPT ![e] = @ + 1]
  /\ SlipGoto(q, e, "created")
  /\ UNCHANGED <<db, calls, run, stamped, genFailed>>

SlipStamp(q, e) ==
  /\ slip[q][e].at = "created"
  /\ stamped' = stamped \cup {e}
  /\ SlipGoto(q, e, "acking")
  /\ UNCHANGED <<db, calls, run, payslips, genFailed>>

\* The catch block marks the entry if it can and rethrows.
SlipError(q, e) ==
  /\ "payslip_error" \in Faults
  /\ slip[q][e].at \in {"waiting", "created"}
  /\ genFailed' \in {genFailed, genFailed \cup {e}}
  /\ SlipGoto(q, e, "acking")
  /\ UNCHANGED <<db, calls, run, payslips, stamped>>

SlipEnd(q, e) ==
  /\ slip[q][e].at = "acking"
  /\ SlipGoto(q, e, "ended")
  /\ UNCHANGED <<db, calls, run, files>>

SlipStall(q, e) ==
  /\ "stall" \in Faults
  /\ slip[q][e].at \in {"created", "acking"}
  /\ slip' = [slip EXCEPT ![q][e] =
                [at |-> IF @.again THEN "ended" ELSE "waiting", again |-> TRUE]]
  /\ UNCHANGED <<db, calls, run, files>>

SlipJob(q, e) == SlipCreate(q, e) \/ SlipStamp(q, e) \/ SlipEnd(q, e)

-------------------------------------------------------------------------------
Arrive(q) == \/ CreateCheck(q) \/ RunCheck(q) \/ ApproveCheck(q)
             \/ DisburseCheck(q) \/ ReverseCheck(q)

Failure(q) ==
  \/ Abort(q) \/ JobFetchFails(q) \/ JobRevertFails(q) \/ JobStall(q)
  \/ \E e \in Employees : SlipError(q, e) \/ SlipStall(q, e)

Next == \E q \in Requests :
          \/ Arrive(q) \/ Call(q) \/ RunJob(q) \/ Failure(q)
          \/ \E e \in Employees : SlipJob(q, e)

Spec == Init /\ [][Next]_vars

\* A call in flight and a queued job go on; nobody is obliged to call the API.
Fairness == \A q \in Requests :
              /\ WF_vars(Call(q))
              /\ WF_vars(RunJob(q))
              /\ \A e \in Employees : WF_vars(SlipJob(q, e))

FairSpec == Spec /\ Fairness

-------------------------------------------------------------------------------
(* Properties *)

Lifecycle == INSTANCE PayrollLifecycle WITH
  Employees <- Employees, status <- status, entry <- entry, counted <- counted

Advances ==
  {<<"NONE", "COMPUTED">>, <<"COMPUTED", "APPROVED">>, <<"APPROVED", "DISBURSED">>}
    \cup {"COMPUTED", "APPROVED", "DISBURSED"} \X {"REVERSED"}

\* However calls, jobs and crashes interleave, a payroll entry only moves
\* forward: it is computed once, a stale approval or disbursement never revives
\* a reversed entry, and no rerun overwrites an entry that was stored.
EntryOnlyAdvances ==
  [][\A e \in Employees : \/ entry'[e] = entry[e]
                          \/ <<entry[e], entry'[e]>> \in Advances]_vars

\* The payslip worker never looks at the entry's status, and still nobody has a
\* payslip, nor a payslip failure, unless the entry had been disbursed.
PayslipImpliesDisbursed ==
  \A e \in Employees : payslips[e] > 0 \/ e \in stamped \cup genFailed
                        => entry[e] \in {"DISBURSED", "REVERSED"}

\* When calls do not overlap, nobody gets a second payslip unless BullMQ delivered
\* a payslip job again.
SecondPayslipNeedsRedelivery ==
  \A e \in Employees : payslips[e] > 1 => \E q \in Requests : slip[q][e].again

\* When calls do not overlap and one run job works at a time, the system behaves
\* as if every operation happened at once, in the documented order, and a run
\* that failed left nothing behind.
ImplementsLifecycle == Lifecycle!Spec

\* Under the same assumptions the cycle, its entries and its totals always agree.
CycleEntriesAgree == Lifecycle!CycleEntriesAgree

\* A run that was started ends, in COMPUTED or back in DRAFT.
ProcessingEnds == []<>(status # "PROCESSING")

\* Everybody whose entry is disbursed gets a payslip, unless the cycle is reversed.
DisbursedGetsPayslip ==
  \A e \in Employees : []<>(entry[e] = "DISBURSED" => payslips[e] > 0)

\* "approved cycle cannot be re-run" (backend_regression_test_cases.md:911).
ApprovedNotRerun == [][status = "APPROVED" => status' # "PROCESSING"]_vars

\* "creates HELD entries for failed employees, COMPUTED for successful ones"
\* (payroll/tests/payroll-worker-retry.spec.ts:144): a plan with held employees can be stored.
HeldEntriesStored ==
  [][\A q \in Requests :
       run[q].at = "active" /\ run'[q].at = "txfailed" =>
         \A e \in Employees : run[q].plan[e] # "HELD"]_vars
===============================================================================
