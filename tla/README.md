# Verification of the HR backend

TLA+ models of the HR backend in `src/`, the TLC configurations that check them
on small instances, and TLAPS proofs of what matters most for every instance.
`PROJECT.json` lists every run, the definition each source line is modelled by,
the mutants that show each property can fail, the findings and the hazards.

To check a model: `tlc -workers 2 -config MCHiring.cfg MCHiring.tla`. To check
the proofs: `tlapm HiringProofs.tla`.

## The system

One NestJS process (`apps/api`, possibly several instances) serves HTTP calls,
runs BullMQ workers and cron jobs in the same event loop, and keeps all state in
PostgreSQL (Prisma) and Redis. There is no lock and no version column anywhere:
a handler reads rows, checks them, and after one or more `await`s writes by
primary key. Interactive transactions run at PostgreSQL's default READ
COMMITTED, so a read in a transaction does not protect a later write. This one
habit is behind most of the hazards, and the models keep it: a check and its
write are separate steps wherever an `await` separates them in the code.

| Component | State | Operations | Interacts with | Hard part |
| --- | --- | --- | --- | --- |
| Payroll cycle | `PayrollCycle`, `PayrollEntry`, `Payslip` rows; `payroll_run`, `payslip_gen` queues | create, run, approve, disburse, reverse; run worker, payslip worker | employees and salaries (read), audit, events | calls overlap each other and the workers; rollbacks, lost acknowledgements, redelivered jobs |
| Payroll computation | none (pure), salary structures and components | compute gross, deductions, net | payroll run | rounding, cyclic formulas |
| Leave | `LeaveRequest`, `LeaveBalance`, `AccrualRunLog` | apply, approve, reject, cancel; monthly accrual and carry-forward | holidays, departments, scheduler | stale balance rows, two rows per request, several cron instances |
| Holidays | `Holiday`, calendars | add, update, remove | working days of leave | edits under live requests |
| Recruitment | `JobRequisition`, `Application`, `Offer`, interview panels; expiry queue | requisition and offer life cycles, stages, scorecards; expiry worker | careers page, notifications | a call racing the expiry job, two acceptances |
| E-signatures, documents, policies | `EsignRequest`, documents, acknowledgements | request, sign, decline; hourly expiry | audit, notifications | expiry racing the signer |
| Attendance | one `AttendanceLog` a day | clock in, clock out, correct | reports | repeated calls |
| Auth, roles, users | Redis refresh tokens, one-time codes, invitations, permission cache; users, roles | login, refresh, verify, invite, assign | all handlers | cache filled after its invalidation, read-then-delete in Redis |
| Employees, org, bulk import | employees, departments, managers | create, update, terminate, import | payroll, leave, auth | employee number from a count, partial imports |
| Notifications | notification rows, mail | event handlers, dispatch | every event | mail sent but not recorded |
| Reports | saved reports, schedules; export queue | schedule, tick, export | S3, notifications | a schedule that is never due |
| Onboarding, offboarding, learning, certification, compensation, performance, surveys | small state machines | assign, complete, approve, finalize | events | the last of several steps done twice or by nobody |
| Integrations, analytics, encryption, Prisma extensions, HTTP plumbing, web, worker stub | little or none | | | |

The `components` of `PROJECT.json` name the files of each, and what is not
modelled yet with the reason.

What makes the modelled components correct:

- *Payroll*: an entry only moves forward; a payslip exists only for what was
  disbursed; cycle, entries and totals tell the same story; a started run ends
  and a disbursed entry gets its payslip; amounts are those the definitions of
  the components give; one salary is in force a day.
- *Leave*: no balance row is overdrawn or shows more than its credit; a month is
  credited exactly once however many instances fire the cron job; days used are
  those of the approved requests; no two transactions wait for each other.
- *Recruitment*: nobody is hired without a sent offer; the counter covers every
  hire; hired applications and accepted offers are the same; a full requisition
  is closed for good; an offer with an expiry job does not stay open; a panel is
  done when its last scorecard is in; an applicant's resume is where his row says.
- *Signatures and policies*: an answer is final and has its audit row; nothing
  stale stays pending; what was acknowledged stays as it was.
- *Accounts and roles*: who was revoked, deactivated or reset stays out; what the
  cache allows is what the roles allow.
- *Employees*: the history leads to the row, audit and import totals agree; departments form a
  tree; hours add up.
- *Mail, reports, webhooks*: delivered once at most, or as often as an answer was
  lost or a worker died, and not announced before.
- *Whatever has several steps* (onboarding, exits, courses, reviews, surveys,
  bonuses): it is done when all that the code asks for is, and only then.
- *Equity*: no unit vests twice, and none is lost unless vesting runs overlap or
  meet several events at once.

## Modules

### Payroll: `PayrollLifecycle`, `PayrollCycle`, `PayrollCycleProofs`, `MCPayrollCycle`

`PayrollLifecycle` is the promise: create, run, compute or revert, approve,
disburse, reverse, each in one step. `PayrollCycle` is the code: for every API
call a program counter (`pc`), for every run call its `payroll_run` job (`run`),
for every disbursement its `payslip_gen` jobs (`slip`), and the rows. Each action
is the stretch of a handler or worker between two awaits. `Faults` says what may
go wrong: an exception or crash in a handler (`abort`), a worker that dies and
whose job BullMQ redelivers once (`stall`), queries that throw, a transaction
that rolls back, a commit whose acknowledgement is lost. Amounts are abstracted
to `counted`, the employees the totals add up. A held entry carries an empty
`structureId`, which the uuid column refuses: `CanStore` models this, and the run
of `payroll_held` shows what follows.

### Leave: `LeaveRequests`, `LeaveRequestsProofs`, `MCLeaveRequests`

One leave type. A transaction is a function of numbered operations on balance
rows, done in the order of their numbers (`NextOp`); `TxRead` is the `findUnique`
and `TxWrite` the `update` computed from it, with row locks taken by writes and
held to the commit, as READ COMMITTED does. `pend` holds what the transaction
wrote and nobody else sees; a run that will be rolled back, because another one
has logged its month, may compute there a balance that no row ever shows (`Draft`). Approving over new year deducts from
two rows; the monthly run credits all employees in one transaction and, in
December, carries days over. `LogAgain`, `Refused` and `CommitAccrual` stand on
the unique indexes of `AccrualRunLog` and `LeaveBalance`. `taken` is a history
variable for what each approval took.

### Recruitment: `HiringPipeline`, `Hiring`, `HiringProofs`, `MCHiring`

One requisition with its applications, offers and expiry jobs. Calls are slots
used again and again, so there is no bound on their number, only on how many
overlap. A call's check and its write are two steps; `create` of an offer has
three, because it moves the application first. Transactions write blindly or by
atomic increment, so they take effect in one step at their commit. `overlap` is
a history variable: it becomes true when two calls, or a call and an expiry job,
are in flight at once. The serial properties are stated as "unless calls
overlapped", so one run checks both worlds. `lost` remembers expiry jobs that
failed: the queue is registered without attempts.

`HiringPipeline` is what recruitment promises: every operation at once, no calls,
no expiry jobs, and no counter, since a requisition closes when the applications
that are hired fill it. `ImplementsPipeline` says that until calls overlap each step of
`Hiring` is such an operation or changes nothing of it.

As committed, `careers.controller.ts` uses services it neither imports nor
injects and `offer-expiry.processor.ts` imports a decorator that its package does
not have; both are modelled as they are meant.

### Salaries: `SalarySetup`, `PayrollMath`

`SalarySetup` has the components, structures and salaries of one employee; a call
checks and later writes by id, and the payroll run locks a component by using it.
`PayrollMath` takes a catalogue of components that `create` and `update` let in,
attendance and holidays, and computes one payslip component by component as
`PayrollEngine` does, in hundredths (`Rounded`) and half days. The reference
definition is `Amount`, which is also the standalone `computePayroll`; what the
employer contributes is computed and counts in neither total. The walk of
`hasCycle` and sums over components are recursive functions and folds, so that
`FiguresProofs` can reason about them.

### Records: `ESignatures`, `Policies`, `Sessions`, `Permissions`, `Notifications`, `ReportExports`, `Careers`, `Webhooks`, `Records`

Proofs: `AccessProofs` (sessions, permissions, signatures), `RecordsProofs`.

| Module | State | Actions | What it says |
| --- | --- | --- | --- |
| `ESignatures` | documents and files, request rows, audit rows, the batch of the hourly job | upload; create, sign, decline, each as check, audit row, commit; the sweep request by request | `RecordsAreBacked` under any overlap or fault; `AnswerIsFinal` without overlaps; `StaleIsResolved` |
| `Policies` | one policy, who acknowledged which content | create, update, publish, archive, acknowledge | `AcknowledgedStands` |
| `Sessions` | one user; refresh tokens, invitations, reset tokens and the mailed code, which are keys in Redis | register, invite, accept, verify, login, refresh, logout, reset, (de)activate; keys expire | `RevokedStayOut` |
| `Permissions` | roles, grants, who holds them, the cache | lookup as miss, load, fill; each change as check, write, invalidation | `CacheIsCurrent` |
| `Notifications` | a handler per event, mails, rows | emit, recipient, send, insert, catch; an insert that throws may have been stored | `DeliveredOnce`: one mail; one row, or two after a lost answer |
| `ReportExports` | a report, its schedule, ticks, export jobs | save, delete, schedule, tick in four steps, export in five steps, attempts, an upload that throws and may have been stored, dead workers | `DeliveredOnce`: one file, unless an answer was lost or a worker died; one notice |
| `Careers` | the candidate, applications, stored resumes, parsing jobs | upload, find or create, apply, queue, parse | `RecordsAreBacked` |
| `Webhooks` | one webhook, fan-outs, deliveries, reports of failure | register, update, fan-out, failure, success | `DeliveredOnce` |

`audit.record` writes on a connection of its own, so `ESignatures` has audit rows
of transactions that never committed; what holds is that no signature is without
one. History variables (`overlap`, `disturbed`) say whether two calls were ever in
flight together or one stopped half-way.

### People: `Employees`, `Directory`, `Attendance`, `Onboarding`, `Offboarding`, `Interviews`, `Learning`, `Skills`, `Compensation`, `Equity`, `Reviews`, `Surveys`, `People`

Proofs: `FiguresProofs` (payslips, departments, raises, equity), `StaffProofs` (the other
parts), `PeopleProofs`.

| Module | State | What it says |
| --- | --- | --- |
| `Employees` | employees, their history with its grades, audit rows, queued jobs, one import job | `EmploymentIsOnRecord`: history leads to placement, status and grade of the row (a promotion without a grade says null there and leaves the row its own), imports account for every row |
| `Directory` | departments and their parents; records of an owner | `DepartmentsFormATree` |
| `Attendance` | one record a day, a clock | `AttendanceAddsUp`: the exception reports cover every past day once, minutes are those between the ends |
| `Onboarding` | template, tasks, open transactions | `DoneMeansAllDone`: over only when no task is left, even if transactions overlap |
| `Offboarding` | exit request, checklists, interview, events | completed with the interview and every task there is done, announced once |
| `Interviews` | panel, panelists, scorecards, stage | completed when all cards are in, even if calls overlap |
| `Learning` | the course at each place of a path, enrolments | what the lock of an enrolment asked for stays completed, progress is not lost |
| `Skills` | levels and validation, a certification and its expiry check | validated only while the levels agree |
| `Compensation` | cycle, allocations, events | a disbursed cycle leaves nothing undecided or unpaid |
| `Equity` | grant, vesting events, vesting runs that may overlap | `UnitsVestAsScheduled`: all units are scheduled (none if the cliff lies beyond the end), never counted twice, and never lost unless runs overlap or meet several events |
| `Reviews` | cycle, review, responses, plans | a rated review was submitted by both sides |
| `Surveys` | questions, assignments, submissions, answer rows of a question | completed exactly if submitted; results only from enough employees, unless somebody answers a question twice or through another survey |

In each of them a call is a slot, its check and its write are two actions, and
`Abort` ends it between them. What starts a step that no code at this commit
starts (a template becoming active, an interview held, a survey closed, the
vesting and expiry checks, a schedule's first date) is an action marked external.

### Composition: `Records`, `MCRecords`, `People`, `MCPeople`, `MCProgress`

The small modules are composed for TLC and for the proofs. The parts share no table
that two of them write, so a product of their states would show nothing more:
`scope` picks one part at the start and a behaviour is one of that part; what a
part does not have stays 0. `Records` has all constants of its parts as its own,
with the assumptions they need (`RecordsAssumption`), and the parts share only
`call`, `overlap`, `disturbed`, `objects` and `failed`, which several of them have;
`MCRecords` gives it small sets. `People` composes fourteen parts in the same way,
from `PeopleAssumption`; parts share `call`, `overlap`, `disturbed`, `aborted`,
`status`, `task`, `announced`, `order`, `today` and `cycle` where they name a variable
alike. Its `Bound` is for TLC: an employee who is not one of `Few` has no change after
the hire, and calls overlap or stop half-way only while no such employee is about; it
says nothing when `Few` is all of `Employees`. `MCPeople`
gives small sets. In `MCProgress` each part has variables of its own, and each
fairness condition is that of the part's module while it is in scope. A property
of a run is the conjunction of what the parts promise under its name.

## Runs

Every passing run's properties have a mutant in `PROJECT.json`, a plausible bug
under which TLC finds the property violated.

| Run | What it asks | Instance and why it is enough |
| --- | --- | --- |
| `payroll_calls` | Do overlapping calls, workers and all faults ever move an entry back or create a payslip for what was not disbursed? | one employee (entries never interact except in totals), five calls: create, run, approve, disburse, reverse, or a racing call for any of them |
| `payroll_serial` | Does the code refine `PayrollLifecycle`, and do cycle, entries and totals agree, when calls do not overlap? | two employees, so that some are held or counted and others not; every fault but the lost acknowledgement |
| `payroll_held` (violation) | Are held entries stored, as the worker's test says? | one held employee of two |
| `payroll_rerun` (violation) | Is an approved cycle never run again, as the test catalogue says? | two overlapping run calls |
| `leave_interleaved` | Are balances sound when approvals, cancellations, holiday edits and two cron instances overlap? | one employee, two requests, one over new year; December and January, so both rows are credited and days carried over; aborts anywhere |
| `leave_serial` | Are days used those of approved requests, with a cap and carry-forward? | three requests, four calls that do not overlap |
| `leave_carry` (violation) | Are only unused days carried over? | two requests, calls that do not overlap |
| `hiring` | Is hiring sound under overlaps, and without them exact and a refinement of `HiringPipeline`? | two applications for one post, or one whose offer expires (its job reads and writes nothing of another application, so the two kinds are explored apart); two overlapping calls with aborts |
| `hiring_terminal` (violation) | Is `REJECTED` terminal? | one call at a time |
| `progress` | Does what waits for a job get it: do runs end, payslips follow, leave calls end, months get credited, offers and signature requests get resolved? | payroll: one employee, five overlapping calls, rollbacks of the run; leave: two requests over new year (two rows each), two cron instances; hiring: one application, two overlapping calls racing the expiry job (none of them holds, closes or cancels the requisition, which is nothing to an offer); signatures: two requests, two calls racing the hourly job |
| `records` | Do the eight parts of `Records` keep their records straight await by await? | two calls at once (one at a time for accounts, whose property is about single calls in any order), two roles, two signature requests for one document, two events, jobs, ticks and applicants' calls; aborts everywhere, mail failures and dead workers where the code meets them |
| `people` | Do the fourteen parts of `People` keep the affairs of employees straight? | two overlapping calls with aborts (one at a time for attendance); two employees, one of whom (`Few`) has changes after the hire and calls that overlap or stop half-way; two vesting runs; two answers of a submission to a question; three departments, the smallest number that allows a longer cycle; three components, one a deduction and one an employer contribution, under every catalogue the service accepts; three vesting plans with a cliff inside, none, and beyond the end |

Bounds: `Requests` (payroll) and `Calls` (leave) are calls used once each;
everywhere else a call is a slot used again and again, so only how many overlap is
bounded. Two are enough for a check made stale by one other write, which is the
form of every race found here. `MaxFilled` bounds acceptances, `MaxJobs` expiry
jobs of one application, `MaxChanges` passwords and (de)activations, `MaxCopies`
checklists, and `MaxVersion`, `MaxEvents`, `MaxSalaries`, `MaxReports`,
`MaxQuestions`, `MaxAnswers` and `LastDay` what their names say; the constraint `ExpiringIsAlone`
bounds which applications `hiring` explores together, and `Disturbance` how far `people`
and `records` follow a behaviour in which calls overlapped: not past an `update` of an
employee, of whom the property then says little, nor past a second salary; and not past
a lost upload or worker of an export, once ticks overlapped. Symmetry is used for calls,
employees, applications, structures, jobs and cron instances where no liveness is checked.
`CHECK_DEADLOCK FALSE` is set everywhere: calls run out, and a closed requisition
has nothing left to do.

Fairness: a worker whose job is active goes on, and a waiting job is taken (weak
fairness of each job's step; strong fairness of starting an expiry job, since the
worker is busy now and then but always becomes free again). A handler
continues after its await (weak fairness): Node resumes what it has awaited
unless the process dies, and `progress` excludes that wherever a promise needs a
handler to go on. The hourly signature
job runs and goes on to the end of its batch. No run assumes that a user makes a
call. Every instance fires its cron job, which is what the decorator promises.
Liveness is stated as `[]<>`, which says the same as a leads-to whose goal is that
the waiting is over, and which TLC checks without a tableau.

A property that joins several parts has one mutant in `PROJECT.json`; the other definitions
marked "Mutant" are bugs of the remaining parts, each of which breaks the same
property in the same way.

## What the violations show

- `payroll_held`: one held employee rolls the whole run back
  (`payroll-run.processor.ts:203`), against `payroll-worker-retry.spec.ts:144`.
- `payroll_rerun`: a run call that read `DRAFT` restarts a cycle approved
  meanwhile (`payroll-cycle.service.ts:76`), against
  `backend_regression_test_cases.md:911`.
- `leave_carry`: days are carried over on December 1 and can still be used in
  December (`leave-accrual.engine.ts:150`), against `db_schema_reference.md:413`.
- `hiring_terminal`: an application rejected while its offer is out is hired when
  the offer is accepted (`offer.service.ts:108`), against
  `application.service.ts:16`.

Other disagreements met while modelling and not kept as runs:

- Two overlapping approvals overspend the credit of one row: both pass the check
  on the same stale row and one deduction is lost
  (`leave-request.service.ts:326`; `leave-balance.invariant.spec.ts:214` claims
  the balance never goes negative in such a race). `NeverOverdrawn` still holds,
  because the row itself is always written consistently.
- An approval that overlaps a cancellation revives the cancelled request
  (`leave-request.service.ts:177`).
- The accrual caps the `balance` column but not its components, and the next
  approval or cancellation undoes the cap (`leave-accrual.engine.ts:120`,
  `leave-request.service.ts:332`).
- A failed accrual month is never run again (`scheduler.service.ts:39`), and a
  failed payroll run is not retried (`payroll.module.ts:27`), although
  `system_design.md:254` and `:260` describe retries.
- Accepting an offer creates no employee, although
  `backend_regression_test_cases.md:1260` says it does.
- `holiday.service.ts:44` uses an undeclared variable when a date is updated.

Met in the parts of `records` and `people`; where one concerns overlapping calls,
the property of the part leaves that case out and says so:

- Signatures: the hourly job or a late answer overwrites an answer given
  meanwhile (`esign.service.ts:290`); two overlapping calls make two pending
  requests (`:47`). One request that keeps failing holds up the rest (`:320`).
- Cache and accounts: a lookup that overlaps a change of roles stores the old
  permissions for five minutes (`rbac-cache.service.ts:25`); two overlapping
  refreshes exchange one token twice (`token.service.ts:79`); overlapping guesses
  lose an attempt (`email-verification.service.ts:54`). Terminating an employee
  revokes no refresh token.
- Mail: `MailService.send` swallows errors, so a lost mail is recorded as sent;
  a failed insert after a sent mail is recorded as not sent, in a second row if the
  first was stored all the same (`email-dispatch.processor.ts:140`). Its comment leaves the retry to BullMQ, but
  it is called directly.
- Reports: no code sets the first `nextRunAt` or queues the dispatcher
  (`report-schedule.service.ts:117`); scheduled exports have one attempt; an upload
  that threw but was stored leaves a file nobody is told of, since the key of the next
  try has a new time in it (`report-export.processor.ts:65`);
  `$queryRawUnsafe(sql, [array])` binds the array as one parameter.
- Careers: a refused second application still replaces the candidate's resume,
  and overlapping first applications leave a resume that no row names.
- Webhooks: `resetFailureCount` does not re-activate a webhook; overlapping
  reports lose counts (`webhook.service.ts:84`).
- Vesting: two events of one grant due in one run, or in two runs that overlap, use
  the same stale `vestedUnits`, so units are lost and the grant is never fully vested
  (`vesting-cron.processor.ts:28`); a cliff beyond the end schedules nothing,
  although the comment promises all units. Nothing calls the vesting run or the
  certification expiry check.
- Salaries: `update` lets a formula name itself or form a cycle, after which the
  employee is held; `PERCENT_OF_BASIC` in front of `BASIC` gives 0; a default of 0
  in a structure falls back to the component's; a backdated revision can leave two
  current salaries a day; unpaid leave on weekends is docked twice.
- Employees: the next employee number is the count plus one
  (`auth.service.ts:346`); `update` changes status, placement and grade without
  history; a promotion without a grade says null in the history while the row keeps
  its own (`employees.service.ts:139`);
  a row whose audit fails after the hire counts as failed; an import in
  `setImmediate` is lost with the process.
- Departments: two moves that overlap can make a cycle, on which the recursive
  query does not end (`org.service.ts:79`). Managers have no cycle check.
- Attendance: correcting one end leaves the minutes (`attendance.service.ts:293`);
  future days are reported absent; a later clock-in that overlaps moves the first.
- Onboarding: the last two tasks completed at once leave it open for ever
  (`onboarding-assignment.service.ts:62`); without tasks it never completes;
  nothing makes a template active, and its controller imports a missing file.
- Offboarding: nothing writes the interview that `finalizeExit` asks for; once it is
  written, an exit that nobody approved is completed too, since `every` of no tasks is
  true (`exit-request.service.ts:132`). `exit-request.service.spec.ts:110` says that
  `SUBMITTED` to `COMPLETED` is refused, with a request that has neither field.
  A cancelled or rejected exit can be finalized; overlapping
  approvals make two checklists.
- Interviews: scorecards of removed panelists count; a cancelled panel can become
  completed; a refused schedule has moved the stage; `assignPanelists` leaves no
  lead.
- Learning: nothing listens to `course.completed`; reaching 100 percent by
  `updateProgress` announces nothing; `bulkAssign` passes over the sequence; a course
  may be at two places of a path, and enrolment looks at either
  (`learning-path.service.ts:31`).
- Performance, surveys, compensation: `saveResponse` tests for `NOT_STARTED`
  although reviews start `PENDING`, and changes submitted responses;
  `addCheckIn` of a plan omits its id and always fails; nothing closes a survey; one
  submission may have no answers, several to one question, or answers to another
  survey's, so that one employee can reach the anonymity threshold
  (`survey.service.ts:93`);
  `approveAllocation` takes any amount at any time, `rejectAllocation` checks
  nothing; `bonus.disbursed` and `onboarding.completed` are emitted before their
  transaction commits.
- Certifications: `verify` accepts revoked ones and the expiry check turns
  revoked into expired.
- Policies: `pendingCount` can become negative.
- Prisma: `prisma.service.ts:63` defines `unscopedClient` on the instance, which
  hides the getter with the soft-delete extension.

## Proofs

`PayrollCycleProofs` (any employees, any number of calls, any faults):

- `TypeCorrect`, and with it that no held row is ever stored.
- `EntriesOnlyAdvance`: needs only types. `EntryWriters` names the five actions
  that write entries; each writes by a guarded `updateMany` or an upsert that
  leaves later states alone.
- `PayslipsFollowDisbursement`: the invariant `PayslipInv` adds the jobs: whoever
  has a payslip, a failure mark or a job has been disbursed, and a disbursed
  entry stays disbursed or reversed (`LateStaysLate`).
- `SerialImplementsLifecycle` and `SerialEntriesAgree`, under `Serial` (calls do
  not overlap, one run job at a time, no lost acknowledgement). The inductive
  invariant `SerialInv` says that at most one call and one job is between its
  check and its write and that what they checked still holds (`FreshCheck`,
  `FreshJob`); without it a blind write by id could not be mapped to a step of
  `PayrollLifecycle`. Each action is shown to be a step of it or a stutter.
- `SerialOnePayslip`, under the same assumptions: a second payslip needs a redelivered
  job. `SlipInv` adds that a cycle is disbursed by one call (`OneDisburser`), that an
  employee leaves its list for one job (`JobsFollowList`), and that a payslip is of a job
  past its insert, the only one unless a job came again (`OneEach`).

`HiringProofs` (any finite set of applications, any number of overlapping calls,
any headcount, faults allowed), from `HiringAssumption`:

- `TypeCorrect`, `HiredWereOffered`: `IInv` adds what a call in flight has
  checked that cannot be undone (`CallsChecked`: an acceptance is of an offer
  once sent) and that `SENT` is reached only by sending.
- `HiresAreCounted`: every step adds at most one hired application, and only with
  an increment (`HiredGrows`); cardinality facts do the rest.
- `SerialFullIsClosed`, `SerialHiresAgree`: `SerialInv` says that as long as nothing
  overlapped, at most one call or job is in flight and all it checked still holds
  (`Checked`, one clause for each operation); the counter is then exactly the number
  of hired applications (`SerialHires`).
- `SerialImplementsPipeline`: with these, each write is an operation of `HiringPipeline`
  (`ProceedImplements`), also when the call before it stopped half-way; checks, the
  clock and failures change nothing of it (`ChecksStutter`). The requisition closes when
  the counter reaches the headcount, in the pipeline when the hired do: that
  step needs the exact counter.

`LeaveRequestsProofs` (any finite set of employees, any requests, years, months,
calls and cron instances, any overlap), from `LeaveAssumption`:

- `TypeCorrect`, `NeverOverdraws`, `NeverPromisesMore`. Both the check of a balance
  and the write rest on a snapshot that may be stale, so the row alone says too
  little. The invariant `IInv` says of every transaction in flight that the rows it
  wrote are sound by themselves, grown from the committed ones, and credited by a
  cron job only (`PendOK`); that the row it read is sound, and the row it will write
  has only grown from it (`SnapOK`); that no two transactions wrote one row
  (`RowsLocked`); and that a row of the next year is carried to once, by the month
  that ends the year (`NotCarriedYet`, `FreshOK`).
  All of this is waived for a run whose month another one has logged
  (`Doomed`): the unique index makes it roll back.
- `BalanceStaysCovered`, `CapacityIsKept`, under `SerialCalls`, `IsFiniteSet(Requests)`
  and `AppliedFit` (the requests pending at the start fit the team): `SerialInv`
  adds that one call at a time is busy, that what it read is still so, and
  that the request it may create has room in the team (`SerialOK`).
- `AccruesOncePerPeriod`: `CreditInv` says of a run in flight that the rows it shows
  differ from the committed ones by the credits it has done, and of each row that it is
  credited once (`RunOK`); a run that finds its month logged commits nothing.
- `UsedStaysApproved`, under the assumptions of `BalanceStaysCovered` and without
  holiday edits (`leave_serial` has none, since an edit changes what a cancellation
  gives back): `UsedInv` says how far a review has changed each row (`ChangeOK`) and
  that an approved request took all its days (`TakenAll`).

  Both equate a column with a sum over a finite set. `SumIsCount` shows that such a sum
  is the cardinality of a set of tokens, by `SubsetInduction`, which states induction
  for a family of sets and so needs no operator as a parameter; `SumWith` then adds
  one member. This holds for members in any number and order.

`AccessProofs` has the inductive invariants of three parts of `records`, about their
instances in `Records` (any documents, requests, users, roles, tokens, keys, calls):

- Signatures, `SignIInv`, under every overlap, abort and rollback: a call past
  its audit step has its audit row, a call past the upload its file (`SignCallsBacked`),
  each request of the hourly batch exists (`SignJobBacked`); versions are bounded
  (`SignVersionsBounded`), so that the last one is a maximum, which the
  well-foundedness of the natural numbers gives. `SignSerialInv`: as long as nothing
  overlapped, one actor at a time is between its check and its write and its check
  still holds. The hypothesis says that the mark for "no document" is none.
- Permissions and sessions, `RoleSerialInv` and `AccountSerialInv`, for `SystemRoles` among
  the roles and keys of different kinds that are different. Types and what each step of
  a call may have read hold always; as long as nothing was disturbed, one call at a
  time is in flight, what it read is still so, and what the call has yet to do is all
  that is wrong: a cached set is that of the roles now unless the invalidation of its
  user is still to come, a live token is entitled unless the revocation that is
  running will delete it (`AccountTokensEntitled`).

`RecordsProofs` proves the properties of `records` for every value of its constants,
from `RecordsAssumption`: `TypeCorrect`, `RecordsStayBacked`, `AnswersAreFinal`,
`AcknowledgedStays`, `RevokedStaysOut`, `CacheStaysCurrent`, `DeliversOnce`. A step of
`Records` is a step or a stutter of the part in scope (`PartSteps`), so its invariant
is the conjunction of those of the parts: the three of `AccessProofs`, and

- Policies, `PolicyInv`: only a published policy has readers or is being
  acknowledged; without overlaps the version counts the edits.
- Mails, `MailInv`: what the step of a handler says about its mail and rows; a second
  row is that of the catch after an insert that threw.
- Webhooks, `HookInv`: no count runs ahead of the failures reported, and without
  overlaps a report in flight is the one failure not counted yet.
- Report exports, `ExportInv`: the state of a job, with the attempts it has left and
  whether an answer was lost or a worker died, bounds how often it stored and
  announced its file; a tick in flight has a due time
  of its own; jobs queued are at most the rows added, which needs that `Jobs` is finite.
- Careers, `ApplyInv`: which objects and rows each step of an application leaves, and
  that the candidate's resume and profile stem from one of them.

`PeopleProofs` does the same for `people`, for every value of the constants, from
`PeopleAssumption`: finitely many calls and things they are about, natural numbers
for amounts and bounds, and names for "nobody" that are nobody's. It proves
`TypeCorrect`, `EmploymentStaysOnRecord`, `DepartmentsStayATree`,
`AttendanceStaysSound`, `SalariesStaySound`, `PayslipsFollowDefinitions`, `UnitsVest`
and `DoneStaysDone`. The lemmas about the parts are in `FiguresProofs` and `StaffProofs`,
which `PeopleProofs` extends and composes. Most parts have an invariant of three
conjuncts: types, what holds however calls overlap (`...Follows`), and, as long as nothing was disturbed,
that one call at a time is in flight and what it checked is still so (`...Alone`).
What each adds:

- Employees, `EmployInv`: a history starts with the hiring, ends with the placement
  of the row, and its last grade is that of the row (`HistoryGrows` for each change); a call past its write owes the audit row, or the job, that is
  still missing (`EmployCalls`); an import has counted the rows before the one it is at
  (`EmployImport`, `EmployRows`); and `EmployAlone` for the exact counts.
- Departments, `TreeInv`: `Above` climbs as often as there are departments, and is
  shown to be the least set closed under parents, since each step that is not the
  last adds a department (`AboveIsClosure`). A move under a department that is not below the
  one moved then keeps `Acyclic` (`Reparent`).
- Attendance, `HoursInv`: a row has a clock-in; what a call read is still so while it is
  alone; and the minutes and the status of a row that was not corrected are those
  its ends give.
- Salaries, `SalariesInv`: only the last salary may be open, and unless one
  was backdated each ends before the next begins.
- Payslips, `MathInv`: the components done so far are the first ones of the order, their
  amounts are those of the definition, and they use earlier ones only. `Reaches` is shown
  to be the least transitive relation with the formulas' edges. The recursive function
  of `hasCycle` is shown to exist by induction on the components not yet visited, with
  those left to try (`Weight`); `VisitSound` says that a cycle it reports is one, and
  `VisitComplete` that sets of components without one stay `Settled`, so that no
  report means no cycle. An order in which every formula looks back is acyclic
  (`OrderIsAcyclic`), and the totals are those of the earnings
  and of the deductions (`MathTotals`).
- Equity, `VestInv`: the events' units add up to those of the grant
  (`ScheduleSum`, over a list of any length, by `NatFamily`; `ScheduleNone` for a cliff
  beyond the end). What a run read is at most the units processed beside the
  events it has still to write, so the grant never runs ahead of what is processed
  (`VestFollows`); as long as runs were apart and had one event each, what the run
  read is still so and the sum is exact (`VestAlone`).
- On- and offboarding, interviews, courses, compensation, reviews, surveys, skills
  (`OnboardInv`, `OffboardInv`, `PanelInv`, `StudyInv`, `RaisesInv`, `ReviewInv`,
  `SurveyInv`, `SkillInv`): what a call counted before it reports something done. In
  `Surveys`, for one, an assignment is completed exactly if it has a sheet, its
  sheets with those about to be written are at most as many as the calls, and answers
  of different employees are mapped to employees one to one (`SurveyDone`).

`SubsetInduction` and `NatFamily` state induction over finite sets and numbers for a
family of sets, `SumIsCount` sums by cardinality; the proofs on data that a recursive
definition computes rest on these three.

Only model-checked: every liveness property, which is out of the prover's reach. Each
invariant and action property of a passing run is stated by a theorem.

`PayrollCycle` states its refinement as `Lifecycle == INSTANCE PayrollLifecycle
WITH ...`: `payroll_serial` checks `ImplementsLifecycle` and
`SerialImplementsLifecycle` proves it for every instance. `Hiring` does the same with
`Pipeline == INSTANCE HiringPipeline WITH ...`, `hiring` and `SerialImplementsPipeline`.

## Plan

1. Done: payroll cycle, leave, recruitment; the parts of `records` and `people`; the
   liveness of `progress`; the proofs above, which state every safety property of
   the passing runs.
2. An abstract ledger of leave days, with a review and a monthly run as one step each,
   and the refinement when calls do not overlap; the sums it would rest on,
   `UsedMatchesApproved` and `AccruedOncePerPeriod`, are proved.
3. Goals, feedback and benefits, if the project grows further.

## Not modelled

Formatting of payslips and bank files, report SQL, encryption, object storage,
configuration, telemetry, the web client and the worker stub: they keep no state
of their own or only render it. Manager self-service, analytics and company
statistics are reads. Leave types, courses, skills, goals, meetings, feedback and
benefits are validated CRUD around the state machines that are modelled. Slack
and API keys store and look up a token. The Prisma extensions rewrite queries;
the models act on the rows of one company. The formula parser is reduced to which
components a formula names. Authorisation is left out of every model but
`Permissions`: a call is one that passed its guard.
