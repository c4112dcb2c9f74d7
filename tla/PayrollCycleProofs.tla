-------------------------- MODULE PayrollCycleProofs --------------------------
(* Theorems about PayrollCycle, for any set of employees, any number of API   *)
(* calls and any faults.                                                      *)
EXTENDS PayrollCycle, TLAPS

-------------------------------------------------------------------------------
(* Type correctness *)

\* Updating one field of one job keeps the table of jobs well typed.
LEMMA SlipTable ==
  ASSUME NEW f \in [Requests -> [Employees -> SlipJobs]], NEW q \in Requests,
         NEW e \in Employees, NEW l \in SlipStates
  PROVE  [f EXCEPT ![q][e].at = l] \in [Requests -> [Employees -> SlipJobs]]
<1>1. [f[q][e] EXCEPT !.at = l] \in SlipJobs
  BY DEF SlipJobs
<1>2. [f[q] EXCEPT ![e] = [f[q][e] EXCEPT !.at = l]] \in [Employees -> SlipJobs]
  BY <1>1
<1> QED
  BY <1>2

LEMMA RunTable ==
  ASSUME NEW f \in [Requests -> RunJobs], NEW q \in Requests,
         NEW l \in JobStates, NEW plan \in Plans
  PROVE  [f EXCEPT ![q].at = l, ![q].plan = plan] \in [Requests -> RunJobs]
<1>1. [[f[q] EXCEPT !.at = l] EXCEPT !.plan = plan] \in RunJobs
  BY DEF RunJobs
<1> QED
  BY <1>1

LEMMA NoPlanType == NoPlan \in Plans
BY DEF NoPlan, Plans

LEMMA TypeInit == Init => TypeOK
BY DEF Init, TypeOK, CycleStatus, StoredStatus, EntryStatus, PCs, Idle, RunJobs,
       JobStates, Plans, NoPlan, SlipJobs, SlipStates, NoJob

LEMMA TypeNext == TypeOK /\ [Next]_vars => TypeOK'
<1> SUFFICES ASSUME TypeOK, [Next]_vars PROVE TypeOK'
  OBVIOUS
<1> USE DEF TypeOK, CycleStatus, StoredStatus, EntryStatus, db, files, calls
<1>1. ASSUME NEW q \in Requests, Arrive(q) PROVE TypeOK'
  BY <1>1 DEF Arrive, CreateCheck, RunCheck, ApproveCheck, DisburseCheck,
              ReverseCheck, Admit, Goto, PCs
<1>2. ASSUME NEW q \in Requests, Call(q) PROVE TypeOK'
  <2> USE DEF Goto, PCs, Done
  <2>1. CASE CreateInsert(q)
    BY <2>1 DEF CreateInsert
  <2>2. CASE RunFence(q)
    BY <2>2 DEF RunFence
  <2>3. CASE RunEnqueue(q)
    BY <2>3 DEF RunEnqueue, RunJobs, JobStates
  <2>4. CASE ApproveCountHeld(q)
    BY <2>4 DEF ApproveCountHeld
  <2>5. CASE ApproveCommit(q) \/ DisburseCommit(q) \/ ReverseCommit(q)
    <3>1. CASE ApproveCommit(q)
      BY <3>1 DEF ApproveCommit, Commit, Move
    <3>2. CASE DisburseCommit(q)
      BY <3>2 DEF DisburseCommit, Commit, Move
    <3>3. CASE ReverseCommit(q)
      BY <3>3 DEF ReverseCommit, Commit, Move
    <3> QED
      BY <2>5, <3>1, <3>2, <3>3
  <2>6. CASE DisburseList(q)
    BY <2>6 DEF DisburseList, ListEntries
  <2>7. CASE DisburseReturn(q)
    BY <2>7 DEF DisburseReturn
  <2>8. ASSUME NEW e \in Employees, DisburseEnqueue(q, e) PROVE TypeOK'
    <3>1. "waiting" \in SlipStates
      BY DEF SlipStates
    <3> QED
      BY <2>8, <3>1, SlipTable DEF DisburseEnqueue
  <2> QED
    BY <1>2, <2>1, <2>2, <2>3, <2>4, <2>5, <2>6, <2>7, <2>8 DEF Call
<1>3. ASSUME NEW q \in Requests, RunJob(q) PROVE TypeOK'
  <2> USE RunTable, NoPlanType DEF JobGoto, JobStates
  <2>1. CASE JobCompute(q)
    <3>1. PICK plan \in Plans : run' = [run EXCEPT ![q].at = "active", ![q].plan = plan]
      BY <2>1 DEF JobCompute, ComputeAt
    <3>2. run' \in [Requests -> RunJobs]
      BY <3>1
    <3> QED
      BY <2>1, <3>2 DEF JobCompute, ComputeAt
  <2>2. CASE JobSkip(q)
    BY <2>2 DEF JobSkip
  <2>3. CASE JobSave(q)
    <3>1. entry' \in [Employees -> StoredStatus] /\ status' = "COMPUTED"
            /\ counted' \in SUBSET Employees
      BY <2>3 DEF JobSave, Store, CanStore, RunJobs, Plans
    <3> QED
      <4>1. run' \in [Requests -> RunJobs]
        <5>1. CASE JobGoto(q, "acking")
          BY <5>1
        <5>2. CASE JobGoto(q, "txfailed")
          BY <5>2
        <5> QED
          BY <2>3, <5>1, <5>2 DEF JobSave
      <4> QED
        BY <2>3, <3>1, <4>1 DEF JobSave
  <2>4. CASE JobSaveFails(q)
    BY <2>4 DEF JobSaveFails
  <2>5. CASE JobRevert(q)
    BY <2>5 DEF JobRevert, JobThrow
  <2>6. CASE JobEnd(q)
    BY <2>6 DEF JobEnd
  <2> QED
    BY <1>3, <2>1, <2>2, <2>3, <2>4, <2>5, <2>6 DEF RunJob
<1>4. ASSUME NEW q \in Requests, Failure(q) PROVE TypeOK'
  <2>1. CASE Abort(q)
    BY <2>1 DEF Abort, Goto, PCs, Done
  <2>2. CASE JobFetchFails(q) \/ JobRevertFails(q)
    <3>1. run' \in [Requests -> RunJobs]
      <4>1. JobGoto(q, "acking")
        BY <2>2 DEF JobFetchFails, JobRevertFails, JobThrow
      <4> QED
        BY <4>1, RunTable, NoPlanType DEF JobGoto, JobStates
    <3> QED
      BY <2>2, <3>1 DEF JobFetchFails, JobRevertFails, JobThrow
  <2>3. CASE JobStall(q)
    BY <2>3 DEF JobStall, RunJobs, JobStates, Plans, NoPlan
  <2>4. ASSUME NEW e \in Employees, SlipError(q, e) PROVE TypeOK'
    <3>1. "acking" \in SlipStates
      BY DEF SlipStates
    <3> QED
      BY <2>4, <3>1, SlipTable DEF SlipError, SlipGoto
  <2>5. ASSUME NEW e \in Employees, SlipStall(q, e) PROVE TypeOK'
    BY <2>5 DEF SlipStall, SlipJobs, SlipStates
  <2> QED
    BY <1>4, <2>1, <2>2, <2>3, <2>4, <2>5 DEF Failure
<1>5. ASSUME NEW q \in Requests, NEW e \in Employees, SlipJob(q, e) PROVE TypeOK'
  <2>1. {"created", "acking", "ended"} \subseteq SlipStates
    BY DEF SlipStates
  <2>2. CASE SlipCreate(q, e)
    <3>1. slip' \in [Requests -> [Employees -> SlipJobs]]
      BY <2>1, <2>2, SlipTable DEF SlipCreate, SlipGoto
    <3>2. payslips' \in [Employees -> Nat]
      BY <2>2 DEF SlipCreate
    <3> QED
      BY <2>2, <3>1, <3>2 DEF SlipCreate
  <2>3. CASE SlipStamp(q, e)
    BY <2>1, <2>3, SlipTable DEF SlipStamp, SlipGoto
  <2>4. CASE SlipEnd(q, e)
    BY <2>1, <2>4, SlipTable DEF SlipEnd, SlipGoto
  <2> QED
    BY <1>5, <2>2, <2>3, <2>4 DEF SlipJob
<1>6. CASE UNCHANGED vars
  BY <1>6 DEF vars
<1> QED
  BY <1>1, <1>2, <1>3, <1>4, <1>5, <1>6 DEF Next

\* Every variable keeps its type; in particular no HELD entry is ever stored.
THEOREM TypeCorrect == Spec => []TypeOK
BY TypeInit, TypeNext, PTL DEF Spec

-------------------------------------------------------------------------------
(* Entries only move forward *)

Late == {"DISBURSED", "REVERSED"}

\* Only four steps write an entry.
LEMMA EntryWriters ==
  ASSUME [Next]_vars
  PROVE  \/ entry' = entry
         \/ \E q \in Requests : \/ ApproveCommit(q) \/ DisburseCommit(q)
                               \/ ReverseCommit(q) \/ JobSave(q)
<1> USE DEF db, files, calls
<1>1. ASSUME NEW q \in Requests, Arrive(q) PROVE entry' = entry
  BY <1>1 DEF Arrive, CreateCheck, RunCheck, ApproveCheck, DisburseCheck,
              ReverseCheck, Admit
<1>2. ASSUME NEW q \in Requests, Call(q)
      PROVE  entry' = entry \/ ApproveCommit(q) \/ DisburseCommit(q) \/ ReverseCommit(q)
  BY <1>2 DEF Call, CreateInsert, RunFence, RunEnqueue, ApproveCountHeld,
              DisburseList, ListEntries, DisburseReturn, DisburseEnqueue
<1>3. ASSUME NEW q \in Requests, RunJob(q) PROVE entry' = entry \/ JobSave(q)
  BY <1>3 DEF RunJob, JobCompute, ComputeAt, JobSkip, JobSaveFails, JobRevert,
              JobThrow, JobEnd
<1>4. ASSUME NEW q \in Requests, Failure(q) PROVE entry' = entry
  BY <1>4 DEF Failure, Abort, JobFetchFails, JobRevertFails, JobThrow, JobStall,
              SlipError, SlipStall
<1>5. ASSUME NEW q \in Requests, NEW e \in Employees, SlipJob(q, e) PROVE entry' = entry
  BY <1>5 DEF SlipJob, SlipCreate, SlipStamp, SlipEnd
<1>6. CASE UNCHANGED vars
  BY <1>6 DEF vars
<1> QED
  BY <1>1, <1>2, <1>3, <1>4, <1>5, <1>6 DEF Next

LEMMA EntryStep ==
  ASSUME TypeOK, [Next]_vars, NEW e \in Employees
  PROVE  entry'[e] = entry[e] \/ <<entry[e], entry'[e]>> \in Advances
<1> USE DEF TypeOK, StoredStatus, EntryStatus, Advances
<1>1. ASSUME NEW q \in Requests,
             ApproveCommit(q) \/ DisburseCommit(q) \/ ReverseCommit(q)
      PROVE  entry'[e] = entry[e] \/ <<entry[e], entry'[e]>> \in Advances
  BY <1>1 DEF ApproveCommit, DisburseCommit, ReverseCommit, Commit, Move
<1>2. ASSUME NEW q \in Requests, JobSave(q)
      PROVE  entry'[e] = entry[e] \/ <<entry[e], entry'[e]>> \in Advances
  BY <1>2 DEF JobSave, CanStore, Store
<1> QED
  BY <1>1, <1>2, EntryWriters

\* However calls, jobs and faults interleave, an entry only moves forward.
THEOREM EntriesOnlyAdvance == Spec => EntryOnlyAdvances
<1>1. TypeOK /\ [Next]_vars
        => [\A e \in Employees : \/ entry'[e] = entry[e]
                                 \/ <<entry[e], entry'[e]>> \in Advances]_vars
  BY EntryStep
<1> QED
  BY <1>1, TypeCorrect, PTL DEF Spec, EntryOnlyAdvances

-------------------------------------------------------------------------------
(* Payslips follow disbursement *)

\* What leads to a payslip of e: a row, a mark on the entry, a job, or a job that
\* a disburse call is about to add.
Served(e) == \/ payslips[e] > 0
             \/ e \in stamped \cup genFailed
             \/ \E q \in Requests : e \in todo[q] \/ slip[q][e].at # "none"

PayslipInv == \A e \in Employees : Served(e) => entry[e] \in Late

LEMMA LateStaysLate ==
  ASSUME TypeOK, [Next]_vars, NEW e \in Employees, entry[e] \in Late
  PROVE  entry'[e] \in Late
BY EntryStep DEF Late, Advances

\* Only the listing of disbursed entries makes an employee served.
LEMMA ServedStep ==
  ASSUME TypeOK, [Next]_vars, NEW e \in Employees, Served(e)'
  PROVE  Served(e) \/ entry[e] = "DISBURSED"
<1> USE DEF TypeOK, Served, db, files, calls
<1>1. ASSUME NEW q \in Requests, Arrive(q) PROVE Served(e)
  BY <1>1 DEF Arrive, CreateCheck, RunCheck, ApproveCheck, DisburseCheck,
              ReverseCheck, Admit
<1>2. ASSUME NEW q \in Requests, Call(q) PROVE Served(e) \/ entry[e] = "DISBURSED"
  <2>1. CASE DisburseList(q)
    BY <2>1 DEF DisburseList, ListEntries
  <2>2. ASSUME NEW d \in Employees, DisburseEnqueue(q, d) PROVE Served(e)
    BY <2>2 DEF DisburseEnqueue, SlipJobs, SlipStates
  <2>3. CASE UNCHANGED <<todo, slip, files>>
    BY <2>3
  <2> QED
    BY <1>2, <2>1, <2>2, <2>3
       DEF Call, CreateInsert, RunFence, RunEnqueue, ApproveCountHeld, DisburseReturn,
           ApproveCommit, DisburseCommit, ReverseCommit, Commit
<1>3. ASSUME NEW q \in Requests, RunJob(q) PROVE Served(e)
  BY <1>3 DEF RunJob, JobCompute, ComputeAt, JobSkip, JobSave, JobSaveFails, JobRevert,
              JobThrow, JobEnd
<1>4. ASSUME NEW q \in Requests, Failure(q) PROVE Served(e)
  <2>1. CASE Abort(q)
    BY <2>1 DEF Abort
  <2>2. ASSUME NEW d \in Employees, SlipError(q, d) PROVE Served(e)
    BY <2>2 DEF SlipError, SlipGoto, SlipJobs, SlipStates
  <2>3. ASSUME NEW d \in Employees, SlipStall(q, d) PROVE Served(e)
    BY <2>3 DEF SlipStall, SlipJobs, SlipStates
  <2> QED
    BY <1>4, <2>1, <2>2, <2>3
       DEF Failure, JobFetchFails, JobRevertFails, JobThrow, JobStall
<1>5. ASSUME NEW q \in Requests, NEW d \in Employees, SlipJob(q, d) PROVE Served(e)
  <2>1. CASE SlipCreate(q, d)
    BY <2>1 DEF SlipCreate, SlipGoto, SlipJobs, SlipStates
  <2>2. CASE SlipStamp(q, d)
    BY <2>2 DEF SlipStamp, SlipGoto, SlipJobs, SlipStates
  <2>3. CASE SlipEnd(q, d)
    BY <2>3 DEF SlipEnd, SlipGoto, SlipJobs, SlipStates
  <2> QED
    BY <1>5, <2>1, <2>2, <2>3 DEF SlipJob
<1>6. CASE UNCHANGED vars
  BY <1>6 DEF vars
<1> QED
  BY <1>1, <1>2, <1>3, <1>4, <1>5, <1>6 DEF Next

\* Nobody gets a payslip, nor a payslip failure, before the entry is disbursed.
THEOREM PayslipsFollowDisbursement == Spec => []PayslipImpliesDisbursed
<1>1. Init => PayslipInv
  BY DEF Init, PayslipInv, Served, NoJob
<1>2. TypeOK /\ PayslipInv /\ [Next]_vars => PayslipInv'
  BY ServedStep, LateStaysLate DEF PayslipInv, Late
<1>3. PayslipInv => PayslipImpliesDisbursed
  BY DEF PayslipInv, PayslipImpliesDisbursed, Served, Late
<1> QED
  BY <1>1, <1>2, <1>3, TypeCorrect, PTL DEF Spec

-------------------------------------------------------------------------------
(* Refinement of PayrollLifecycle when calls do not overlap                   *)

Serial == SerialRequests /\ SingleRunWorker /\ "ack_lost" \notin Faults

InFlight(q) == pc[q] \notin {Idle, Done}

\* What the status is while a call stands at l, having checked it at its start.
Expected(l) == {s \in CycleStatus : /\ l = "create" => s = "NONE"
                                    /\ l = "run" => s = "DRAFT"
                                    /\ l \in {"approveHeld", "approve"} => s = "COMPUTED"
                                    /\ l = "disburse" => s = "APPROVED"
                                    /\ l = "reverse" => s \in {"APPROVED", "DISBURSED"}}

\* One call and one run job at a time, and what each of them checked is still true
\* when it writes.
OneCall    == \A p, q \in Requests : InFlight(p) /\ InFlight(q) => p = q
OneJob     == \A p, q \in Requests :
                run[p].at \in AtWork /\ run[q].at \in AtWork => p = q
FreshCheck == \A q \in Requests : status \in Expected(pc[q])
FreshJob   == \A q \in Requests :
                run[q].at \in {"active", "txfailed"} => status = "PROCESSING"
SerialInv  == OneCall /\ OneJob /\ FreshCheck /\ FreshJob

LEMMA SerialInit == Init => SerialInv
BY DEF Init, SerialInv, OneCall, OneJob, FreshCheck, FreshJob, InFlight, AtWork,
       Expected, Idle, Done, CycleStatus

\* A call in flight moves on; it may write the status unless a job is at work on it.
LEMMA CallWrite ==
  ASSUME TypeOK, SerialInv, NEW q \in Requests, InFlight(q),
         NEW l \in PCs, Goto(q, l), run' = run,
         status' \in Expected(l), status # "PROCESSING" \/ status' = status
  PROVE  SerialInv'
<1> USE DEF TypeOK, SerialInv, Goto
<1>1. OneCall'
  BY DEF OneCall, InFlight
<1>2. OneJob'
  BY DEF OneJob
<1>3. FreshCheck'
  <2> SUFFICES ASSUME NEW p \in Requests, p # q PROVE status' \in Expected(pc[p])
    BY DEF FreshCheck
  <2>1. pc[p] \in {Idle, Done}
    BY DEF OneCall, InFlight
  <2> QED
    BY <2>1 DEF Expected, Idle, Done
<1>4. FreshJob'
  BY DEF FreshJob
<1> QED
  BY <1>1, <1>2, <1>3, <1>4

\* A job moves on; it may write the status only as the one at work on the cycle.
LEMMA JobWrite ==
  ASSUME TypeOK, SerialInv, NEW q \in Requests, pc' = pc,
         run' \in [Requests -> RunJobs],
         \A p \in Requests : p # q => run'[p] = run[p],
         run'[q].at \in AtWork => \/ run[q].at \in AtWork
                                 \/ \A p \in Requests : run[p].at \notin AtWork,
         run'[q].at \in {"active", "txfailed"} => status' = "PROCESSING",
         \/ status' = status
         \/ /\ status = "PROCESSING" /\ status' \in CycleStatus
            /\ run[q].at \in AtWork
  PROVE  SerialInv'
<1> USE DEF TypeOK, SerialInv
<1>1. OneCall'
  BY DEF OneCall, InFlight
<1>2. OneJob'
  BY DEF OneJob
<1>3. FreshCheck'
  BY DEF FreshCheck, Expected
<1>4. FreshJob'
  BY DEF FreshJob, OneJob, AtWork
<1> QED
  BY <1>1, <1>2, <1>3, <1>4

\* A step that leaves the cycle, its entries and its totals alone is a stutter.
LEMMA Stutter == UNCHANGED db => [Lifecycle!Next]_(Lifecycle!vars)
BY DEF db, Lifecycle!vars

LEMMA ArriveStep ==
  ASSUME Serial, TypeOK, SerialInv, NEW q \in Requests, Arrive(q)
  PROVE  SerialInv' /\ [Lifecycle!Next]_(Lifecycle!vars)
<1> USE DEF TypeOK, SerialInv
<1>1. UNCHANGED db
  BY DEF Arrive, CreateCheck, RunCheck, ApproveCheck, DisburseCheck, ReverseCheck, Admit
<1>2. OneCall'
  BY DEF Arrive, CreateCheck, RunCheck, ApproveCheck, DisburseCheck, ReverseCheck, Admit,
         Goto, Serial, OneCall, InFlight
<1>3. OneJob' /\ FreshJob'
  BY DEF Arrive, CreateCheck, RunCheck, ApproveCheck, DisburseCheck, ReverseCheck, Admit,
         OneJob, FreshJob, db
<1>4. FreshCheck'
  BY DEF Arrive, CreateCheck, RunCheck, ApproveCheck, DisburseCheck, ReverseCheck, Admit,
         Goto, FreshCheck, Expected, db, CycleStatus
<1> QED
  BY <1>1, <1>2, <1>3, <1>4, Stutter

LEMMA CallStep ==
  ASSUME Serial, TypeOK, SerialInv, NEW q \in Requests, Call(q)
  PROVE  SerialInv' /\ [Lifecycle!Next]_(Lifecycle!vars)
<1> USE DEF TypeOK, db, InFlight, Idle, Done
<1>1. status \in Expected(pc[q])
  BY DEF SerialInv, FreshCheck
<1>2. CASE CreateInsert(q)
  <2>1. status = "NONE" /\ status' = "DRAFT"
    BY <1>1, <1>2 DEF CreateInsert, Expected
  <2>2. SerialInv'
    BY <1>2, <2>1, CallWrite DEF CreateInsert, Expected, PCs, CycleStatus
  <2>3. Lifecycle!Create
    BY <1>2, <2>1 DEF CreateInsert, Lifecycle!Create
  <2> QED
    BY <2>2, <2>3 DEF Lifecycle!Next
<1>3. CASE RunFence(q)
  <2>1. status = "DRAFT" /\ status' = "PROCESSING"
    BY <1>1, <1>3 DEF RunFence, Expected
  <2>2. SerialInv'
    BY <1>3, <2>1, CallWrite DEF RunFence, Expected, PCs, CycleStatus
  <2>3. Lifecycle!Run
    BY <1>3, <2>1 DEF RunFence, Lifecycle!Run
  <2> QED
    BY <2>2, <2>3 DEF Lifecycle!Next
<1>4. CASE ApproveCommit(q)
  <2>1. status = "COMPUTED" /\ status' = "APPROVED"
    BY <1>1, <1>4 DEF ApproveCommit, Commit, Expected
  <2>2. SerialInv'
    BY <1>4, <2>1, CallWrite DEF ApproveCommit, Commit, Expected, PCs, CycleStatus
  <2>3. Lifecycle!Approve
    BY <1>4, <2>1 DEF ApproveCommit, Commit, Move, Lifecycle!Approve, Lifecycle!Move
  <2> QED
    BY <2>2, <2>3 DEF Lifecycle!Next
<1>5. CASE DisburseCommit(q)
  <2>1. status = "APPROVED" /\ status' = "DISBURSED"
    BY <1>1, <1>5 DEF DisburseCommit, Commit, Expected
  <2>2. SerialInv'
    BY <1>5, <2>1, CallWrite DEF DisburseCommit, Commit, Expected, PCs, CycleStatus
  <2>3. Lifecycle!Disburse
    BY <1>5, <2>1 DEF DisburseCommit, Commit, Move, Lifecycle!Disburse, Lifecycle!Move
  <2> QED
    BY <2>2, <2>3 DEF Lifecycle!Next
<1>6. CASE ReverseCommit(q)
  <2>1. status \in {"APPROVED", "DISBURSED"} /\ status' = "REVERSED"
    BY <1>1, <1>6 DEF ReverseCommit, Commit, Expected
  <2>2. SerialInv'
    BY <1>6, <2>1, CallWrite DEF ReverseCommit, Commit, Expected, PCs, CycleStatus
  <2>3. Lifecycle!Reverse
    BY <1>6, <2>1 DEF ReverseCommit, Commit, Move, EntryStatus, Lifecycle!Reverse,
                      Lifecycle!Move, Lifecycle!EntryStatus
  <2> QED
    BY <2>2, <2>3 DEF Lifecycle!Next
<1>7. CASE RunEnqueue(q)
  <2>1. UNCHANGED db
    BY <1>7 DEF RunEnqueue
  <2>2. OneCall' /\ FreshCheck'
    BY <1>7 DEF RunEnqueue, Goto, SerialInv, OneCall, FreshCheck, Expected
  <2>3. OneJob' /\ FreshJob'
    BY <1>7 DEF RunEnqueue, SerialInv, OneJob, FreshJob, AtWork, RunJobs
  <2> QED
    BY <2>1, <2>2, <2>3, Stutter DEF SerialInv
<1>8. CASE ApproveCountHeld(q) \/ DisburseList(q) \/ DisburseReturn(q)
  <2>1. UNCHANGED <<db, run>>
    BY <1>8 DEF ApproveCountHeld, DisburseList, ListEntries, DisburseReturn
  <2>2. PICK l \in {"approve", "enqueueSlips", Done} :
          /\ Goto(q, l)
          /\ l = "approve" => pc[q] = "approveHeld"
    BY <1>8 DEF ApproveCountHeld, DisburseList, ListEntries, DisburseReturn
  <2>3. InFlight(q)
    BY <1>8 DEF ApproveCountHeld, DisburseList, ListEntries, DisburseReturn
  <2>4. status \in Expected(l)
    BY <1>1, <2>2 DEF Expected
  <2> QED
    BY <2>1, <2>2, <2>3, <2>4, CallWrite, Stutter DEF PCs
<1>9. ASSUME NEW e \in Employees, DisburseEnqueue(q, e)
      PROVE  SerialInv' /\ [Lifecycle!Next]_(Lifecycle!vars)
  <2>1. UNCHANGED <<db, pc, run>>
    BY <1>9 DEF DisburseEnqueue
  <2> QED
    BY <2>1, Stutter
       DEF SerialInv, OneCall, OneJob, FreshCheck, FreshJob
<1> QED
  BY <1>2, <1>3, <1>4, <1>5, <1>6, <1>7, <1>8, <1>9 DEF Call

\* The effect of JobGoto on the table of jobs.
LEMMA JobGotoEffect ==
  ASSUME TypeOK, NEW q \in Requests, NEW l \in JobStates, JobGoto(q, l)
  PROVE  /\ run' \in [Requests -> RunJobs]
         /\ run'[q].at = l
         /\ \A p \in Requests : p # q => run'[p] = run[p]
<1>1. run' \in [Requests -> RunJobs]
  BY RunTable, NoPlanType DEF TypeOK, JobGoto
<1> QED
  BY <1>1 DEF TypeOK, JobGoto, RunJobs

LEMMA RunJobStep ==
  ASSUME Serial, TypeOK, SerialInv, NEW q \in Requests, RunJob(q)
  PROVE  SerialInv' /\ [Lifecycle!Next]_(Lifecycle!vars)
<1> USE DEF db, calls
<1>1. CASE JobCompute(q)
  <2>1. PICK plan \in Plans : run' = [run EXCEPT ![q].at = "active", ![q].plan = plan]
    BY <1>1 DEF JobCompute, ComputeAt
  <2>2. run' \in [Requests -> RunJobs]
    BY <2>1, RunTable DEF TypeOK, JobStates
  <2>3. UNCHANGED <<db, pc>> /\ status = "PROCESSING"
          /\ \A p \in Requests : run[p].at \notin AtWork
    BY <1>1 DEF JobCompute, ComputeAt, PickUp, Serial
  <2>4. run'[q].at = "active" /\ \A p \in Requests : p # q => run'[p] = run[p]
    BY <2>1 DEF TypeOK, RunJobs
  <2> QED
    BY <2>2, <2>3, <2>4, JobWrite, Stutter
<1>2. CASE JobSkip(q)
  <2>1. JobGoto(q, "acking") /\ UNCHANGED <<db, pc>>
          /\ \A p \in Requests : run[p].at \notin AtWork
    BY <1>2 DEF JobSkip, PickUp, Serial
  <2> QED
    BY <2>1, JobGotoEffect, JobWrite, Stutter DEF JobStates
<1>3. CASE JobSave(q)
  <2>1. JobGoto(q, "acking") /\ run[q].at = "active" /\ UNCHANGED pc
    BY <1>3 DEF JobSave, Serial
  <2>2. status = "PROCESSING" /\ status' = "COMPUTED"
    BY <1>3, <2>1 DEF SerialInv, FreshJob, JobSave, Store
  <2>3. SerialInv'
    BY <2>1, <2>2, JobGotoEffect, JobWrite DEF JobStates, CycleStatus, AtWork
  <2>4. Lifecycle!Compute({e \in Employees : run[q].plan[e] = "COMPUTED"})
    BY <1>3, <2>2 DEF JobSave, Store, CanStore, Lifecycle!Compute
  <2> QED
    BY <2>3, <2>4 DEF Lifecycle!Next
<1>4. CASE JobSaveFails(q)
  <2>1. JobGoto(q, "txfailed") /\ run[q].at = "active" /\ UNCHANGED <<db, pc>>
    BY <1>4 DEF JobSaveFails
  <2> QED
    BY <2>1, JobGotoEffect, JobWrite, Stutter DEF JobStates, AtWork, SerialInv, FreshJob
<1>5. CASE JobRevert(q)
  <2>1. JobGoto(q, "acking") /\ run[q].at = "txfailed" /\ UNCHANGED <<pc, entry, counted>>
    BY <1>5 DEF JobRevert, JobThrow
  <2>2. status = "PROCESSING" /\ status' = "DRAFT"
    BY <1>5, <2>1 DEF SerialInv, FreshJob, JobRevert
  <2>3. SerialInv'
    BY <2>1, <2>2, JobGotoEffect, JobWrite DEF JobStates, CycleStatus, AtWork
  <2>4. Lifecycle!Revert
    BY <2>1, <2>2 DEF Lifecycle!Revert
  <2> QED
    BY <2>3, <2>4 DEF Lifecycle!Next
<1>6. CASE JobEnd(q)
  <2>1. JobGoto(q, "ended") /\ UNCHANGED <<db, pc>>
    BY <1>6 DEF JobEnd
  <2> QED
    BY <2>1, JobGotoEffect, JobWrite, Stutter DEF JobStates, AtWork
<1> QED
  BY <1>1, <1>2, <1>3, <1>4, <1>5, <1>6 DEF RunJob

LEMMA FailureStep ==
  ASSUME Serial, TypeOK, SerialInv, NEW q \in Requests, Failure(q)
  PROVE  SerialInv' /\ [Lifecycle!Next]_(Lifecycle!vars)
<1> USE DEF db, calls
<1>1. UNCHANGED db
  BY DEF Failure, Abort, JobFetchFails, JobRevertFails, JobThrow, JobStall, SlipError,
         SlipStall
<1>2. CASE Abort(q)
  <2>1. Goto(q, Done) /\ InFlight(q) /\ UNCHANGED run
    BY <1>2 DEF Abort, InFlight
  <2> QED
    BY <1>1, <2>1, CallWrite, Stutter DEF Expected, PCs, Done, TypeOK
<1>3. CASE JobFetchFails(q) \/ JobRevertFails(q)
  <2>1. JobGoto(q, "acking") /\ run[q].at \in AtWork /\ UNCHANGED pc
    BY <1>3 DEF JobFetchFails, JobRevertFails, JobThrow, AtWork
  <2> QED
    BY <1>1, <2>1, JobGotoEffect, JobWrite, Stutter DEF JobStates
<1>4. CASE JobStall(q)
  <2>1. run[q].at \in AtWork /\ UNCHANGED pc
    BY <1>4 DEF JobStall
  <2>2. run' \in [Requests -> RunJobs]
    BY <1>4, NoPlanType DEF JobStall, TypeOK, RunJobs, JobStates
  <2>3. run'[q].at \in {"ended", "waiting"}
          /\ \A p \in Requests : p # q => run'[p] = run[p]
    BY <1>4 DEF JobStall, TypeOK
  <2> QED
    BY <1>1, <2>1, <2>2, <2>3, JobWrite, Stutter DEF AtWork
<1>5. ASSUME NEW e \in Employees, SlipError(q, e) \/ SlipStall(q, e)
      PROVE  SerialInv' /\ [Lifecycle!Next]_(Lifecycle!vars)
  <2>1. UNCHANGED <<pc, run>>
    BY <1>5 DEF SlipError, SlipStall
  <2> QED
    BY <1>1, <2>1, Stutter DEF SerialInv, OneCall, OneJob, FreshCheck, FreshJob, InFlight
<1> QED
  BY <1>2, <1>3, <1>4, <1>5 DEF Failure

LEMMA SerialStep ==
  ASSUME Serial, TypeOK, SerialInv, [Next]_vars
  PROVE  SerialInv' /\ [Lifecycle!Next]_(Lifecycle!vars)
<1> USE DEF db, calls, files
<1>1. ASSUME NEW q \in Requests, NEW e \in Employees, SlipJob(q, e)
      PROVE  UNCHANGED <<db, pc, run>>
  BY <1>1 DEF SlipJob, SlipCreate, SlipStamp, SlipEnd
<1>2. CASE UNCHANGED <<db, pc, run>>
  BY <1>2, Stutter DEF SerialInv, OneCall, OneJob, FreshCheck, FreshJob, InFlight
<1> QED
  BY <1>1, <1>2, ArriveStep, CallStep, RunJobStep, FailureStep DEF Next, vars

\* When calls do not overlap, run jobs do not overlap and a committed run is always
\* acknowledged, the handlers and workers implement the documented life cycle,
\* whatever else fails and wherever a call or a worker dies.
THEOREM SerialImplementsLifecycle ==
  ASSUME Serial PROVE Spec => ImplementsLifecycle
<1>1. Init => Lifecycle!Init
  BY DEF Init, Lifecycle!Init
<1>2. TypeOK /\ SerialInv /\ [Next]_vars => SerialInv' /\ [Lifecycle!Next]_(Lifecycle!vars)
  BY SerialStep
<1> QED
  BY <1>1, <1>2, SerialInit, TypeCorrect, PTL DEF Spec, ImplementsLifecycle, Lifecycle!Spec

\* Hence the cycle, its entries and its totals always agree.
THEOREM SerialEntriesAgree ==
  ASSUME Serial PROVE Spec => []CycleEntriesAgree
<1> USE DEF Lifecycle!CycleEntriesAgree
<1>1. Lifecycle!Init => CycleEntriesAgree
  BY DEF Lifecycle!Init, CycleEntriesAgree
<1>2. CycleEntriesAgree /\ [Lifecycle!Next]_(Lifecycle!vars) => CycleEntriesAgree'
  <2> SUFFICES ASSUME CycleEntriesAgree, [Lifecycle!Next]_(Lifecycle!vars)
               PROVE  CycleEntriesAgree'
    OBVIOUS
  <2> USE DEF CycleEntriesAgree, Lifecycle!Move, Lifecycle!EntryStatus
  <2>1. CASE Lifecycle!Create \/ Lifecycle!Run \/ Lifecycle!Revert
    BY <2>1 DEF Lifecycle!Create, Lifecycle!Run, Lifecycle!Revert
  <2>2. ASSUME NEW paid \in SUBSET Employees, Lifecycle!Compute(paid)
        PROVE  CycleEntriesAgree'
    BY <2>2 DEF Lifecycle!Compute
  <2>3. CASE Lifecycle!Approve
    BY <2>3 DEF Lifecycle!Approve
  <2>4. CASE Lifecycle!Disburse
    BY <2>4 DEF Lifecycle!Disburse
  <2>5. CASE Lifecycle!Reverse
    BY <2>5 DEF Lifecycle!Reverse
  <2>6. CASE UNCHANGED Lifecycle!vars
    BY <2>6 DEF Lifecycle!vars
  <2> QED
    BY <2>1, <2>2, <2>3, <2>4, <2>5, <2>6 DEF Lifecycle!Next
<1> QED
  BY <1>1, <1>2, SerialImplementsLifecycle, PTL DEF ImplementsLifecycle, Lifecycle!Spec

-------------------------------------------------------------------------------
(* One payslip each when calls do not overlap                                 *)

\* The call has committed a disbursement, and its payslip jobs are about to be
\* listed, are being added, or are there.
Disburser(q) ==
  \/ pc[q] \in {"list", "enqueueSlips"}
  \/ todo[q] # {}
  \/ \E e \in Employees : slip[q][e].at # "none"

\* A cycle is disbursed by one call, and is not disbursed again.
OneDisburser ==
  /\ \A p, q \in Requests : Disburser(p) /\ Disburser(q) => p = q
  /\ \A q \in Requests : Disburser(q) => status \in Late

\* Jobs come after the listing, and an employee leaves the list for one job.
JobsFollowList == \A q \in Requests :
  /\ pc[q] \notin {"enqueueSlips", Done} =>
       todo[q] = {} /\ \A e \in Employees : slip[q][e].at = "none"
  /\ \A e \in todo[q] : slip[q][e].at = "none"

\* The first delivery of a job makes one payslip; nothing else makes one.
OneEach == \A e \in Employees :
  (\A q \in Requests : ~slip[q][e].again) =>
    /\ payslips[e] <= 1
    /\ payslips[e] > 0 => \E q \in Requests : slip[q][e].at \in {"created", "acking", "ended"}

SlipInv == OneDisburser /\ JobsFollowList /\ OneEach

LEMMA SlipInit == Init => SlipInv
<1> SUFFICES ASSUME Init PROVE SlipInv
  OBVIOUS
<1>1. /\ \A q \in Requests : todo[q] = {} /\ pc[q] = "idle"
      /\ \A q \in Requests, e \in Employees : slip[q][e].at = "none"
      /\ \A e \in Employees : payslips[e] = 0
  BY DEF Init, NoJob, Idle
<1> QED
  BY <1>1 DEF SlipInv, OneDisburser, Disburser, JobsFollowList, OneEach

\* A cycle that was disbursed or reversed stays so.
LEMMA StatusStaysLate ==
  ASSUME Serial, TypeOK, SerialInv, [Next]_vars, status \in Late
  PROVE  status' \in Late
<1>1. [Lifecycle!Next]_(Lifecycle!vars)
  BY SerialStep
<1> QED
  BY <1>1 DEF Lifecycle!Next, Lifecycle!vars, Lifecycle!Create, Lifecycle!Run, Lifecycle!Revert,
              Lifecycle!Compute, Lifecycle!Approve, Lifecycle!Disburse, Lifecycle!Reverse, Late

\* How a step changes what a call has to do with payslips.
LEMMA SlipSteps ==
  ASSUME TypeOK, [Next]_vars
  PROVE  \/ UNCHANGED <<pc, todo, slip, payslips>>
         \/ \E q \in Requests, l \in PCs :
              /\ Goto(q, l) /\ UNCHANGED <<todo, slip, payslips>>
              /\ \/ l \notin {"list", "enqueueSlips"} /\ pc[q] \notin {"enqueueSlips", Done}
                 \/ l = Done
                 \/ DisburseCommit(q)
         \/ \E q \in Requests : DisburseList(q) \/ Abort(q)
         \/ \E q \in Requests, e \in Employees :
              DisburseEnqueue(q, e) \/ SlipJob(q, e) \/ SlipError(q, e) \/ SlipStall(q, e)
<1> USE DEF db, files, calls, PCs, Idle, Done
<1>1. ASSUME NEW q \in Requests, Arrive(q)
      PROVE  \E l \in PCs : /\ Goto(q, l) /\ UNCHANGED <<todo, slip, payslips>>
                            /\ l \notin {"list", "enqueueSlips"} /\ pc[q] = Idle
  BY <1>1 DEF Arrive, CreateCheck, RunCheck, ApproveCheck, DisburseCheck, ReverseCheck, Admit
<1>2. ASSUME NEW q \in Requests, Call(q),
             ~DisburseList(q), ~\E e \in Employees : DisburseEnqueue(q, e)
      PROVE  \E l \in PCs : /\ Goto(q, l) /\ UNCHANGED <<todo, slip, payslips>>
                            /\ \/ l \notin {"list", "enqueueSlips"} /\ pc[q] \notin {"enqueueSlips", Done}
                               \/ l = Done
                               \/ DisburseCommit(q)
  BY <1>2 DEF Call, CreateInsert, RunFence, RunEnqueue, ApproveCountHeld, ApproveCommit,
              DisburseCommit, ReverseCommit, Commit, DisburseReturn
<1>3. ASSUME NEW q \in Requests, RunJob(q) PROVE UNCHANGED <<pc, todo, slip, payslips>>
  BY <1>3 DEF RunJob, JobCompute, ComputeAt, JobSkip, JobSave, JobSaveFails, JobRevert,
              JobThrow, JobEnd
<1>4. ASSUME NEW q \in Requests, JobFetchFails(q) \/ JobRevertFails(q) \/ JobStall(q)
      PROVE  UNCHANGED <<pc, todo, slip, payslips>>
  BY <1>4 DEF JobFetchFails, JobRevertFails, JobThrow, JobStall
<1>5. CASE UNCHANGED vars
  BY <1>5 DEF vars
<1> HIDE DEF PCs
<1> QED
  BY <1>1, <1>2, <1>3, <1>4, <1>5 DEF Next, Failure

\* The table of payslip jobs after one job has moved.
LEMMA SlipMoved ==
  ASSUME TypeOK, NEW q \in Requests, NEW e \in Employees, NEW l, SlipGoto(q, e, l)
  PROVE  /\ slip'[q][e].at = l /\ slip'[q][e].again = slip[q][e].again
         /\ \A p \in Requests, d \in Employees : p # q \/ d # e => slip'[p][d] = slip[p][d]
BY DEF TypeOK, SlipGoto, SlipJobs

\* Disbursing is once.
LEMMA DisburserStep ==
  ASSUME TypeOK, [Next]_vars, NEW q \in Requests, Disburser(q)', ~DisburseCommit(q)
  PROVE  Disburser(q)
<1> USE DEF TypeOK
<1>1. CASE UNCHANGED <<pc, todo, slip, payslips>>
  BY <1>1 DEF Disburser
<1>2. ASSUME NEW p \in Requests, NEW l \in PCs, Goto(p, l), UNCHANGED <<todo, slip, payslips>>,
             \/ l \notin {"list", "enqueueSlips"}
             \/ l = Done
             \/ DisburseCommit(p)
      PROVE  Disburser(q)
  BY <1>2 DEF Disburser, Goto, Done
<1>3. ASSUME NEW p \in Requests, DisburseList(p) \/ Abort(p) PROVE Disburser(q)
  BY <1>3 DEF Disburser, DisburseList, ListEntries, Abort, Goto, Done
<1>4. ASSUME NEW p \in Requests, NEW e \in Employees, DisburseEnqueue(p, e) PROVE Disburser(q)
  <2>1. e \in todo[p] /\ \A x \in Requests \ {p} : slip'[x] = slip[x] /\ todo'[x] = todo[x]
    BY <1>4 DEF DisburseEnqueue
  <2> QED
    BY <1>4, <2>1 DEF Disburser, DisburseEnqueue
<1>5. ASSUME NEW p \in Requests, NEW e \in Employees, UNCHANGED <<pc, todo>>, slip[p][e].at # "none",
             \A x \in Requests, d \in Employees : x # p \/ d # e => slip'[x][d] = slip[x][d]
      PROVE  Disburser(q)
  <2>1. CASE pc[q] \in {"list", "enqueueSlips"} \/ todo[q] # {}
    BY <2>1 DEF Disburser
  <2>2. CASE \E d \in Employees : slip'[q][d].at # "none"
    <3>1. PICK d \in Employees : slip'[q][d].at # "none"
      BY <2>2
    <3>2. CASE q = p /\ d = e
      BY <1>5, <3>2 DEF Disburser
    <3>3. CASE q # p \/ d # e
      <4>1. slip'[q][d] = slip[q][d]
        BY <1>5, <3>3
      <4> QED
        BY <3>1, <4>1 DEF Disburser
    <3> QED
      BY <3>2, <3>3
  <2> QED
    BY <1>5, <2>1, <2>2 DEF Disburser
<1>6. ASSUME NEW p \in Requests, NEW e \in Employees, SlipJob(p, e) \/ SlipError(p, e)
      PROVE  Disburser(q)
  <2>1. UNCHANGED <<pc, todo>> /\ slip[p][e].at # "none"
    BY <1>6 DEF SlipJob, SlipCreate, SlipStamp, SlipEnd, SlipError, calls
  <2>2. PICK l : SlipGoto(p, e, l)
    BY <1>6 DEF SlipJob, SlipCreate, SlipStamp, SlipEnd, SlipError, calls
  <2> QED
    BY <1>5, <2>1, <2>2, SlipMoved
<1>7. ASSUME NEW p \in Requests, NEW e \in Employees, SlipStall(p, e) PROVE Disburser(q)
  <2>1. UNCHANGED <<pc, todo>> /\ slip[p][e].at # "none"
    BY <1>7 DEF SlipStall, calls
  <2>2. \A x \in Requests, d \in Employees : x # p \/ d # e => slip'[x][d] = slip[x][d]
    BY <1>7 DEF SlipStall
  <2> QED
    BY <1>5, <2>1, <2>2
<1> QED
  BY <1>1, <1>2, <1>3, <1>4, <1>6, <1>7, SlipSteps

LEMMA NextOneDisburser ==
  ASSUME Serial, TypeOK, SerialInv, OneDisburser, [Next]_vars
  PROVE  OneDisburser'
<1>1. ASSUME NEW q \in Requests, DisburseCommit(q)
      PROVE  status = "APPROVED" /\ status' = "DISBURSED" /\ InFlight(q)
  BY <1>1 DEF DisburseCommit, Commit, SerialInv, FreshCheck, Expected, InFlight, Idle, Done
<1>2. ASSUME NEW q \in Requests, Disburser(q)' PROVE status' \in Late
  <2>1. CASE DisburseCommit(q)
    BY <1>1, <2>1 DEF Late
  <2>2. CASE ~DisburseCommit(q)
    BY <1>2, <2>2, DisburserStep, StatusStaysLate DEF OneDisburser
  <2> QED
    BY <2>1, <2>2
<1>3. ASSUME NEW p \in Requests, NEW q \in Requests, Disburser(p)', Disburser(q)' PROVE p = q
  <2>1. CASE DisburseCommit(p) /\ DisburseCommit(q)
    BY <1>1, <2>1 DEF SerialInv, OneCall
  <2>2. CASE ~DisburseCommit(p) /\ ~DisburseCommit(q)
    BY <1>3, <2>2, DisburserStep DEF OneDisburser
  <2>3. ASSUME NEW x \in Requests, NEW y \in Requests, DisburseCommit(x), ~DisburseCommit(y), Disburser(y)'
        PROVE  FALSE
    <3>1. status = "APPROVED" /\ status \in Late
      BY <1>1, <2>3, DisburserStep DEF OneDisburser
    <3> QED
      BY <3>1 DEF Late
  <2> QED
    BY <1>3, <2>1, <2>2, <2>3
<1> QED
  BY <1>2, <1>3 DEF OneDisburser

LEMMA NextJobsFollowList ==
  ASSUME TypeOK, JobsFollowList, [Next]_vars
  PROVE  JobsFollowList'
<1> USE DEF TypeOK
<1>1. CASE UNCHANGED <<pc, todo, slip, payslips>>
  BY <1>1 DEF JobsFollowList
<1>2. ASSUME NEW p \in Requests, NEW l \in PCs, Goto(p, l), UNCHANGED <<todo, slip, payslips>>,
             \/ l \notin {"list", "enqueueSlips"} /\ pc[p] \notin {"enqueueSlips", Done}
             \/ l = Done
             \/ DisburseCommit(p)
      PROVE  JobsFollowList'
  <2>1. l = Done \/ pc[p] \notin {"enqueueSlips", Done}
    BY <1>2 DEF DisburseCommit, Commit, Done
  <2> QED
    BY <1>2, <2>1 DEF JobsFollowList, Goto
<1>3. ASSUME NEW p \in Requests, DisburseList(p) \/ Abort(p) PROVE JobsFollowList'
  <2>1. slip' = slip /\ (todo'[p] = {} \/ pc[p] \notin {"enqueueSlips", Done})
        /\ pc'[p] \in {"enqueueSlips", Done} /\ todo'[p] \subseteq Employees
        /\ \A q \in Requests \ {p} : pc'[q] = pc[q] /\ todo'[q] = todo[q]
    BY <1>3 DEF DisburseList, ListEntries, Abort, Goto, Done
  <2>2. \A q \in Requests : \A e \in todo'[q] : slip[q][e].at = "none"
    BY <2>1 DEF JobsFollowList
  <2> QED
    BY <2>1, <2>2 DEF JobsFollowList
<1>4. ASSUME NEW p \in Requests, NEW e \in Employees, DisburseEnqueue(p, e) PROVE JobsFollowList'
  <2>1. pc' = pc /\ pc[p] = "enqueueSlips" /\ todo'[p] = todo[p] \ {e}
        /\ \A q \in Requests \ {p} : slip'[q] = slip[q] /\ todo'[q] = todo[q]
    BY <1>4 DEF DisburseEnqueue
  <2>2. \A d \in Employees \ {e} : slip'[p][d] = slip[p][d]
    BY <1>4 DEF DisburseEnqueue
  <2> QED
    BY <2>1, <2>2 DEF JobsFollowList
<1>5. ASSUME NEW p \in Requests, NEW e \in Employees, UNCHANGED <<pc, todo>>, slip[p][e].at # "none",
             \A q \in Requests, d \in Employees : q # p \/ d # e => slip'[q][d] = slip[q][d]
      PROVE  JobsFollowList'
  BY <1>5 DEF JobsFollowList
<1>6. ASSUME NEW p \in Requests, NEW e \in Employees, SlipJob(p, e) \/ SlipError(p, e)
      PROVE  JobsFollowList'
  <2>1. UNCHANGED <<pc, todo>> /\ slip[p][e].at # "none" /\ \E l : SlipGoto(p, e, l)
    BY <1>6 DEF SlipJob, SlipCreate, SlipStamp, SlipEnd, SlipError, calls
  <2> QED
    BY <1>5, <2>1, SlipMoved
<1>7. ASSUME NEW p \in Requests, NEW e \in Employees, SlipStall(p, e) PROVE JobsFollowList'
  <2>1. UNCHANGED <<pc, todo>> /\ slip[p][e].at # "none"
    BY <1>7 DEF SlipStall, calls
  <2>2. \A x \in Requests, d \in Employees : x # p \/ d # e => slip'[x][d] = slip[x][d]
    BY <1>7 DEF SlipStall
  <2> QED
    BY <1>5, <2>1, <2>2
<1> QED
  BY <1>1, <1>2, <1>3, <1>4, <1>6, <1>7, SlipSteps

LEMMA NextOneEach ==
  ASSUME TypeOK, SlipInv, [Next]_vars
  PROVE  OneEach'
<1> USE DEF TypeOK
<1>1. OneDisburser /\ JobsFollowList /\ OneEach
  BY DEF SlipInv
<1>2. ASSUME UNCHANGED <<slip, payslips>> PROVE OneEach'
  BY <1>1, <1>2 DEF OneEach
<1>3. ASSUME NEW p \in Requests, DisburseList(p) \/ Abort(p) PROVE OneEach'
  BY <1>2, <1>3 DEF DisburseList, ListEntries, Abort, files
<1>4. ASSUME NEW p \in Requests, NEW e \in Employees, NEW l, SlipGoto(p, e, l), payslips' = payslips,
             slip[p][e].at \in {"created", "acking", "ended"} => l \in {"created", "acking", "ended"}
      PROVE  OneEach'
  <2> SUFFICES ASSUME NEW d \in Employees, \A q \in Requests : ~slip'[q][d].again
               PROVE  /\ payslips[d] <= 1
                      /\ payslips[d] > 0 => \E q \in Requests : slip'[q][d].at \in {"created", "acking", "ended"}
    BY <1>4 DEF OneEach
  <2>1. \A q \in Requests : ~slip[q][d].again
    BY <1>4, SlipMoved
  <2>2. ASSUME NEW q \in Requests, slip[q][d].at \in {"created", "acking", "ended"}
        PROVE  slip'[q][d].at \in {"created", "acking", "ended"}
    BY <1>4, <2>2, SlipMoved
  <2> QED
    BY <1>1, <2>1, <2>2 DEF OneEach
<1>5. ASSUME NEW p \in Requests, NEW e \in Employees, DisburseEnqueue(p, e) PROVE OneEach'
  <2>1. slip[p][e].at = "none" /\ SlipGoto(p, e, "waiting") /\ payslips' = payslips
    BY <1>1, <1>5 DEF DisburseEnqueue, JobsFollowList, SlipGoto, files
  <2> QED
    BY <1>4, <2>1
<1>6. ASSUME NEW p \in Requests, NEW e \in Employees, SlipStamp(p, e) \/ SlipEnd(p, e) \/ SlipError(p, e)
      PROVE  OneEach'
  <2>1. payslips' = payslips /\ (SlipGoto(p, e, "acking") \/ SlipGoto(p, e, "ended"))
    BY <1>6 DEF SlipStamp, SlipEnd, SlipError, files
  <2> QED
    BY <1>4, <2>1
<1>7. ASSUME NEW p \in Requests, NEW e \in Employees, SlipCreate(p, e) PROVE OneEach'
  <2>1. slip[p][e].at = "waiting" /\ SlipGoto(p, e, "created")
        /\ payslips' = [payslips EXCEPT ![e] = @ + 1]
    BY <1>7 DEF SlipCreate
  <2>2. slip'[p][e].at = "created" /\ slip'[p][e].again = slip[p][e].again
        /\ \A x \in Requests, d \in Employees : x # p \/ d # e => slip'[x][d] = slip[x][d]
    BY <2>1, SlipMoved
  <2> SUFFICES ASSUME NEW d \in Employees, \A q \in Requests : ~slip'[q][d].again
               PROVE  /\ payslips'[d] <= 1
                      /\ payslips'[d] > 0 => \E q \in Requests : slip'[q][d].at \in {"created", "acking", "ended"}
    BY DEF OneEach
  <2>3. \A q \in Requests : ~slip[q][d].again
    BY <2>2
  <2>4. CASE d # e
    <3>1. payslips'[d] = payslips[d] /\ \A q \in Requests : slip'[q][d] = slip[q][d]
      BY <2>1, <2>2, <2>4
    <3> QED
      BY <1>1, <2>3, <3>1 DEF OneEach
  <2>5. CASE d = e
    <3>1. \A q \in Requests : slip[q][e].at \notin {"created", "acking", "ended"}
      <4> SUFFICES ASSUME NEW q \in Requests, slip[q][e].at \in {"created", "acking", "ended"} PROVE FALSE
        OBVIOUS
      <4>1. Disburser(q) /\ Disburser(p)
        BY <2>1 DEF Disburser
      <4> QED
        BY <1>1, <2>1, <4>1 DEF OneDisburser
    <3>2. payslips[e] = 0
      BY <1>1, <2>3, <2>5, <3>1 DEF OneEach
    <3>3. payslips'[d] = 1
      BY <2>1, <2>5, <3>2
    <3> QED
      BY <2>2, <2>5, <3>3
  <2> QED
    BY <2>4, <2>5
<1>8. ASSUME NEW p \in Requests, NEW e \in Employees, SlipStall(p, e) PROVE OneEach'
  <2>1. slip'[p][e].again /\ payslips' = payslips
        /\ \A x \in Requests, d \in Employees : x # p \/ d # e => slip'[x][d] = slip[x][d]
    BY <1>8 DEF SlipStall, files
  <2> QED
    BY <1>1, <2>1 DEF OneEach
<1> QED
  BY <1>2, <1>3, <1>5, <1>6, <1>7, <1>8, SlipSteps DEF SlipJob

\* When calls do not overlap, nobody gets a second payslip unless BullMQ delivered
\* a payslip job again, wherever a call or a worker dies in between.
THEOREM SerialOnePayslip ==
  ASSUME Serial PROVE Spec => []SecondPayslipNeedsRedelivery
<1>1. TypeOK /\ SerialInv /\ SlipInv /\ [Next]_vars => SerialInv' /\ SlipInv'
  BY SerialStep, NextOneDisburser, NextJobsFollowList, NextOneEach DEF SlipInv
<1>2. TypeOK /\ SlipInv => SecondPayslipNeedsRedelivery
  BY DEF SlipInv, OneEach, SecondPayslipNeedsRedelivery, TypeOK
<1> QED
  BY <1>1, <1>2, SerialInit, SlipInit, TypeCorrect, PTL DEF Spec
===============================================================================
