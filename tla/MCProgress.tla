------------------------------- MODULE MCProgress ------------------------------
(* What must eventually happen, in the four parts where something waits for a *)
(* job: the payroll cycle, leave, offers and signature requests. The parts    *)
(* share no state; a behaviour is one of the part in scope while the others   *)
(* stand still. The fairness of each part is that of its module, which says   *)
(* why. Variables keep the names of their module, but for those of two.       *)
EXTENDS Naturals

CONSTANTS e1, q1, q2, q3, q4, q5, r1, r2, i1, i2, a1, c1, c2, d1

VARIABLES
  scope,  \* the part that runs
  payStatus, counted, entry, pc, todo, run, slip, payslips, stamped, genFailed,
  leaveStatus, bal, log, period, moved, fired, leaveCall, taken,
  req, stage, offer, late, delayed, worker, hireCall, sent, lost, hireOverlap,
  version, stored, signStatus, about, signature, due, audit, signCall, batch,
  entering, signOverlap

payVars   == <<payStatus, counted, entry, pc, todo, run, slip, payslips, stamped, genFailed>>
leaveVars == <<leaveStatus, bal, log, period, moved, fired, leaveCall, taken>>
hireVars  == <<req, stage, offer, late, delayed, worker, hireCall, sent, lost, hireOverlap>>
signVars  == <<version, stored, signStatus, about, signature, due, audit, signCall,
               batch, entering, signOverlap>>
vars      == <<scope, payVars, leaveVars, hireVars, signVars>>

PayCalls == {q1, q2, q3, q4, q5}
Crons    == {i1, i2}
Calls    == {c1, c2}
Asked    == {r1, r2}

Payroll == INSTANCE PayrollCycle WITH
  Employees <- {e1}, Requests <- PayCalls, SerialRequests <- FALSE,
  SingleRunWorker <- TRUE, Faults <- {"save_error"}, status <- payStatus

\* Both requests go over new year; December is followed by January.
Leave == INSTANCE LeaveRequests WITH
  Requests <- Asked, Employees <- {e1}, Owner <- [r \in Asked |-> e1],
  Days <- [r \in Asked |-> <<2, 1>>], Clash <- [r \in Asked |-> Asked \ {r}],
  Applied <- Asked, Opening <- 2, Years <- {1, 2}, Periods <- {1, 2},
  YearOf <- <<1, 2>>, Decembers <- {1}, Credit <- [e \in {e1} |-> <<1, 1>>],
  MaxBalance <- 0, MaxCarry <- 1, TeamLimit <- 2, SerialCalls <- FALSE,
  HolidayEdits <- FALSE, Faults <- {}, status <- leaveStatus, call <- leaveCall

Hire == INSTANCE Hiring WITH
  Applications <- {a1}, Expires <- {a1}, Headcount <- 1, MaxFilled <- 1,
  MaxJobs <- 1, Faults <- {"abort"}, call <- hireCall, overlap <- hireOverlap

Sign == INSTANCE ESignatures WITH
  Documents <- {d1}, Requests <- Asked, Faults <- {},
  status <- signStatus, call <- signCall, overlap <- signOverlap

Init == /\ scope \in {"payroll", "leave", "hiring", "sign"}
        /\ Payroll!Init /\ Leave!Init /\ Hire!Init /\ Sign!Init

RunPayroll == /\ scope = "payroll" /\ Payroll!Next
              /\ UNCHANGED <<scope, leaveVars, hireVars, signVars>>

RunLeave == /\ scope = "leave" /\ Leave!Next
            /\ UNCHANGED <<scope, payVars, hireVars, signVars>>

\* Bound: nobody holds, closes or cancels the requisition, which reads and writes
\* nothing of an offer.
OffersOnly == \A c \in Calls : hireCall'[c].do \notin {"hold", "close", "cancel"}

RunHiring == /\ scope = "hiring" /\ Hire!Next /\ OffersOnly
             /\ UNCHANGED <<scope, payVars, leaveVars, signVars>>

RunSign == /\ scope = "sign" /\ Sign!Next
           /\ UNCHANGED <<scope, payVars, leaveVars, hireVars>>

Next == RunPayroll \/ RunLeave \/ RunHiring \/ RunSign

Fairness ==
  /\ \A q \in PayCalls :
       /\ WF_payVars(scope = "payroll" /\ Payroll!Call(q))
       /\ WF_payVars(scope = "payroll" /\ Payroll!RunJob(q))
       /\ WF_payVars(scope = "payroll" /\ Payroll!SlipJob(q, e1))
  /\ \A c \in Calls \cup Crons :
       WF_leaveVars(scope = "leave" /\ Leave!Proceed(c))
  /\ \A c \in Crons : WF_leaveVars(scope = "leave" /\ Leave!AccrualStart(c))
  /\ WF_hireVars(scope = "hiring" /\ Hire!TimePasses(a1))
  /\ SF_hireVars(scope = "hiring" /\ Hire!ExpiryStart(a1))
  /\ WF_hireVars(scope = "hiring" /\ Hire!ExpiryWrite)
  /\ WF_signVars(scope = "sign" /\ Sign!Sweep)
  /\ \A c \in Calls : WF_signVars(scope = "sign" /\ Sign!Handle(c))

FairSpec == Init /\ [][Next]_vars /\ Fairness

-------------------------------------------------------------------------------
(* The liveness properties of the parts, where they are in scope *)

\* A cycle does not stay PROCESSING.
ProcessingEnds == []<>(scope = "payroll" => payStatus # "PROCESSING")

\* Everybody whose entry is disbursed gets a payslip, unless the cycle is reversed.
DisbursedGetsPayslip ==
  []<>(scope = "payroll" /\ entry[e1] = "DISBURSED" => payslips[e1] > 0)

\* Calls on leave take row locks in one order: none waits forever for another.
CallsEnd == \A c \in Calls \cup Crons : []<>(scope = "leave" => ~Leave!InFlight(c))

\* As long as no run fails, every month's leave is credited.
MonthIsAccrued ==
  \A p \in {1, 2} : []<>(scope = "leave" /\ p <= period => p \in log)

\* An offer that waits for its answer with an expiry job in the queue does not
\* stay SENT, even if the job races the answer, unless the job itself fails.
ExpiryJobWorks == Hire!ExpiryJobWorks

\* Every pending signature request whose time is over is resolved.
StaleIsResolved ==
  \A r \in Asked : []<>(scope = "sign" /\ r \in due => signStatus[r] # "PENDING")
===============================================================================
