---------------------------- MODULE LeaveRequests -----------------------------
(* Leave requests, leave balances and the monthly accrual of one leave type:  *)
(* leave-request.service.ts, leave-accrual.engine.ts and the cron job of      *)
(* scheduler.service.ts.                                                      *)
(*                                                                            *)
(* A call first reads and checks, then opens a READ COMMITTED transaction.    *)
(* A transaction does operations on balance rows in the order of their        *)
(* numbers, each a findUnique and an update of the columns computed from it.  *)
(* An update locks its row until the commit, a read does not; what is read    *)
(* may be stale when used.                                                    *)
EXTENDS Integers, FiniteSets, SequencesExt

CONSTANTS
  Calls,        \* API calls; each is used once
  Crons,        \* instances of the API process; each fires the cron job monthly
  Requests,     \* leave requests
  Employees,
  Owner,        \* the employee of each request
  Days,         \* Days[r][y]: working days of request r in year y
  Clash,        \* Clash[r]: requests of the department whose dates overlap r's
  Applied,      \* requests that are pending initially
  Opening,      \* days carried into year 1 for every employee
  Years,        \* 1 .. n
  Periods,      \* months with an accrual, 1 .. n
  YearOf,       \* the year of each period
  Decembers,    \* the periods that end a year
  Credit,       \* Credit[e][p]: pro-rated credit, 0 before e is hired
  MaxBalance,   \* cap of the balance, 0 for none
  MaxCarry,     \* maxCarryForward
  TeamLimit,    \* teamCapacityLimit
  SerialCalls,  \* TRUE: a call starts only when no other is in flight
  HolidayEdits, \* TRUE: a holiday may be added under a request over two years
  Faults        \* {"abort"}: an await throws or the process dies

ASSUME LeaveAssumption ==
  /\ Calls \cap Crons = {}
  /\ Years \subseteq Nat \ {0} /\ Periods \subseteq Nat \ {0}
  /\ Owner \in [Requests -> Employees]
  /\ Days \in [Requests -> [Years -> Nat]]
  /\ Clash \in [Requests -> SUBSET Requests]
  /\ Applied \subseteq Requests
  /\ YearOf \in [Periods -> Years] /\ Decembers \subseteq Periods
  /\ \A p \in Decembers : YearOf[p] + 1 \in Years
  /\ \A p, q \in Decembers : YearOf[p] = YearOf[q] => p = q
  /\ IsFiniteSet(Employees)
  /\ Credit \in [Employees -> [Periods -> Nat]]
  /\ Opening \in Nat /\ MaxBalance \in Nat /\ MaxCarry \in Nat /\ TeamLimit \in Nat
  /\ SerialCalls \in BOOLEAN /\ HolidayEdits \in BOOLEAN
  /\ Faults \subseteq {"abort"}

VARIABLES
  status,  \* LeaveRequest.status, NONE before the row exists
  bal,     \* the LeaveBalance row of each employee and year
  log,     \* periods with an AccrualRunLog row
  period,  \* the current month
  moved,   \* requests with one day moved to the end year by a new holiday
  fired,   \* the instances whose cron job has fired this month
  call,    \* the state of each call and cron job
  taken    \* history: the days the approval of each request took, by year

store == <<status, bal, log, taken>>
world == <<period, moved, fired>>
vars  == <<store, world, call>>

Statuses == {"NONE", "PENDING", "APPROVED", "REJECTED", "CANCELLED"}
Rows     == Employees \X Years
Row      == [exists : BOOLEAN, cf : Nat, entitled : Nat, used : Nat, balance : Nat]
\* A run that will be rolled back, because another has logged its period, may have
\* computed a balance that no row ever shows.
Draft    == [exists : BOOLEAN, cf : Nat, entitled : Nat, used : Nat, balance : Int]
NoRow    == [exists |-> FALSE, cf |-> 0, entitled |-> 0, used |-> 0, balance |-> 0]
NoDays   == [y \in Years |-> 0]

IdleCall == [at |-> "idle", kind |-> "none", of |-> 0, seen |-> "NONE",
             todo |-> << >>, split |-> NoDays, snap |-> NoRow, pend |-> << >>]

Actors == Calls \cup Crons

InFlight(c) == call[c].at \notin {"idle", "done"}
InTx(c)     == call[c].at \in {"tx", "write"}

TypeOK ==
  /\ status \in [Requests -> Statuses]
  /\ bal \in [Rows -> Row]
  /\ log \subseteq Periods
  /\ period \in Nat
  /\ moved \subseteq Requests
  /\ fired \subseteq Crons
  /\ taken \in [Requests -> [Years -> Nat]]
  /\ \A c \in Actors :
       /\ call[c].at \in {"idle", "count", "create", "lock", "tx", "write", "done"}
       /\ call[c].snap \in Draft
       /\ DOMAIN call[c].pend \subseteq Rows
       /\ \A row \in DOMAIN call[c].pend : call[c].pend[row] \in Draft

Init ==
  /\ status = [r \in Requests |-> IF r \in Applied THEN "PENDING" ELSE "NONE"]
  /\ bal = [row \in Rows |->
              IF row[2] = 1 /\ Opening > 0
              THEN [NoRow EXCEPT !.exists = TRUE, !.cf = Opening, !.balance = Opening]
              ELSE NoRow]
  /\ log = {}
  /\ period = 0
  /\ moved = {}
  /\ fired = {}
  /\ call = [c \in Actors |-> IdleCall]
  /\ taken = [r \in Requests |-> NoDays]

-------------------------------------------------------------------------------
(* Balance rows: s is the row as it was read, c as it is when written, d the  *)
(* days.  Only the columns the update names change.                           *)

Cap(b) == IF MaxBalance > 0 /\ b > MaxBalance THEN MaxBalance ELSE b

Left(s) == s.cf + s.entitled - s.used

Deducted(s, c, d) == [c EXCEPT !.used = s.used + d, !.balance = Left(s) - d]

\* Mutant: without Math.max(0, ...).
RestoredFreely(s, c, d) ==
  [c EXCEPT !.used = s.used - d, !.balance = s.cf + s.entitled - (s.used - d)]

Restored(s, c, d) ==
  LET used == Max({0, s.used - d})
  IN  [c EXCEPT !.used = used, !.balance = s.cf + s.entitled - used]

\* Mutant: the days used are forgotten.
CreditedInFull(s, c, d) ==
  IF s.exists
  THEN [c EXCEPT !.entitled = s.entitled + d, !.balance = Cap(s.cf + s.entitled + d)]
  ELSE [NoRow EXCEPT !.exists = TRUE, !.entitled = d, !.balance = Cap(d)]

Credited(s, c, d) ==
  IF s.exists
  THEN [c EXCEPT !.entitled = s.entitled + d, !.balance = Cap(Left(s) + d)]
  ELSE [NoRow EXCEPT !.exists = TRUE, !.entitled = d, !.balance = Cap(d)]

Carried(s, c, d) ==
  IF s.exists
  THEN [c EXCEPT !.cf = d, !.balance = d + s.entitled - s.used]
  ELSE [NoRow EXCEPT !.exists = TRUE, !.cf = d, !.balance = d]

\* Mutant: deductBalance does not look at the new balance.
RefusedUnchecked(op, s, c) ==
  \/ op.do = "deduct" /\ ~s.exists
  \/ op.do \in {"credit", "carry"} /\ ~s.exists /\ c.exists

\* Mutant: the accrual creates its row without looking for one.
RefusedExisting(op, s, c) ==
  \/ op.do = "deduct" /\ (~s.exists \/ Left(s) < op.days)
  \/ op.do \in {"credit", "carry"} /\ c.exists

\* deductBalance throws on a missing row or too few days; creating a row that
\* another transaction has created since breaks the unique index.
Refused(op, s, c) ==
  \/ op.do = "deduct" /\ (~s.exists \/ Left(s) < op.days)
  \/ op.do \in {"credit", "carry"} /\ ~s.exists /\ c.exists

Updated(op, s, c) ==
  CASE op.do = "deduct"  -> Deducted(s, c, op.days)
    [] op.do = "restore" -> IF s.exists THEN Restored(s, c, op.days) ELSE c
    [] op.do = "credit"  -> Credited(s, c, op.days)
    [] op.do = "carry"   -> Carried(s, c, op.days)

-------------------------------------------------------------------------------
(* The operations of a transaction *)

\* Working days of r by year as calculateWorkingDays sees them now: the total is
\* fixed when r is created, the end year gets what the start year does not.
StartYear(r) == Min({y \in Years : Days[r][y] > 0})
DaysNow(r) ==
  LET first == StartYear(r)
  IN  IF r \notin moved THEN Days[r]
      ELSE [Days[r] EXCEPT ![first] = @ - 1, ![first + 1] = @ + 1]

\* Mutant: the end year first.
EndYearFirst(do, r, split) ==
  LET last == Max(Years)
  IN  [k \in {last - y : y \in {z \in Years : split[z] > 0}} |->
         [do |-> do, row |-> <<Owner[r], last - k>>, days |-> split[last - k]]]

RequestOps(do, r, split) ==
  [y \in {z \in Years : split[z] > 0} |->
     [do |-> do, row |-> <<Owner[r], y>>, days |-> split[y]]]

EmployeeSeq == SetToSeq(Employees)

\* Each employee's credit and, in December, what is carried over to the next year.
AccrualOps(p) ==
  LET credited == {i \in DOMAIN EmployeeSeq : Credit[EmployeeSeq[i]][p] > 0}
      creditOf == [e \in Employees |-> [do |-> "credit", row |-> <<e, YearOf[p]>>,
                                        days |-> Credit[e][p]]]
      carryOf  == [e \in Employees |-> [do |-> "carry", row |-> <<e, YearOf[p] + 1>>,
                                        days |-> 0]]
      numbers  == {2 * i : i \in credited}
                  \cup IF p \in Decembers THEN {2 * i + 1 : i \in credited} ELSE {}
  IN  [k \in numbers |-> LET e == EmployeeSeq[k \div 2]
                         IN  IF k % 2 = 0 THEN creditOf[e] ELSE carryOf[e]]

-------------------------------------------------------------------------------
(* Calls.  A refused call changes nothing and is left out.                    *)

Start(c) ==
  /\ call[c].at = "idle"
  /\ SerialCalls => \A d \in Actors : ~InFlight(d)

Becomes(c, new) == call' = [call EXCEPT ![c] = new]
End(c) == Becomes(c, [IdleCall EXCEPT !.at = IF c \in Crons THEN "idle" ELSE "done"])

\* apply: the balance check, the capacity check, the insert.
ApplyCheck(c, r) ==
  /\ Start(c)
  /\ status[r] = "NONE"
  /\ \A d \in Actors : ~(InFlight(d) /\ call[d].kind = "apply" /\ call[d].of = r)
  /\ \A y \in Years : Days[r][y] > 0 =>
       LET row == bal[Owner[r], y] IN row.exists /\ row.balance >= Days[r][y]
  /\ Becomes(c, [call[c] EXCEPT !.at = "count", !.kind = "apply", !.of = r])
  /\ UNCHANGED <<store, world>>

Active == {r \in Requests : status[r] \in {"PENDING", "APPROVED"}}

\* Mutant: the capacity check counts approved requests only.
CountApproved(c) ==
  /\ call[c].at = "count"
  /\ IF Cardinality({r \in Clash[call[c].of] : status[r] = "APPROVED"}) >= TeamLimit
     THEN End(c) ELSE Becomes(c, [call[c] EXCEPT !.at = "create"])
  /\ UNCHANGED <<store, world>>

ApplyCount(c) ==
  /\ call[c].at = "count"
  /\ IF Cardinality(Clash[call[c].of] \cap Active) >= TeamLimit
     THEN End(c) ELSE Becomes(c, [call[c] EXCEPT !.at = "create"])
  /\ UNCHANGED <<store, world>>

ApplyCreate(c) ==
  /\ call[c].at = "create"
  /\ status' = [status EXCEPT ![call[c].of] = "PENDING"]
  /\ End(c)
  /\ UNCHANGED <<bal, log, taken, world>>

\* approve, reject and cancel: the status is read and checked here and not again.
Review(c, r, kind, allowed) ==
  /\ Start(c)
  /\ status[r] \in allowed
  /\ Becomes(c, [call[c] EXCEPT !.at = "lock", !.kind = kind, !.of = r,
                                !.seen = status[r]])
  /\ UNCHANGED <<store, world>>

\* Mutant: an approved request may be approved again.
ApproveAgain(c, r) == Review(c, r, "APPROVED", {"PENDING", "APPROVED"})

ApproveCheck(c, r) == Review(c, r, "APPROVED", {"PENDING"})
RejectCheck(c, r)  == Review(c, r, "REJECTED", {"PENDING"})
CancelCheck(c, r)  == Review(c, r, "CANCELLED", {"PENDING", "APPROVED"})

\* What a review does to the balance rows.
ReviewOps(c) ==
  LET r == call[c].of
  IN  CASE call[c].kind = "APPROVED" -> RequestOps("deduct", r, DaysNow(r))
        [] call[c].kind = "CANCELLED" /\ call[c].seen = "APPROVED"
             -> RequestOps("restore", r, DaysNow(r))
        [] OTHER -> << >>

\* The first statement updates the request by id and locks its row.
LockRequest(c) ==
  /\ call[c].at = "lock"
  /\ \A d \in Calls : ~(InTx(d) /\ call[d].of = call[c].of)
  /\ Becomes(c, [call[c] EXCEPT !.at = "tx", !.todo = ReviewOps(c),
                                !.split = DaysNow(call[c].of)])
  /\ UNCHANGED <<store, world>>

\* The cron job of instance c on the first of the month; the run is left out when
\* the period has a log row.
AccrualStart(c) ==
  /\ Start(c)
  /\ period \in Periods
  /\ c \notin fired
  /\ fired' = fired \cup {c}
  /\ IF period \in log THEN UNCHANGED call
     ELSE Becomes(c, [call[c] EXCEPT !.at = "tx", !.kind = "accrual", !.of = period,
                                     !.todo = AccrualOps(period)])
  /\ UNCHANGED <<store, period, moved>>

-------------------------------------------------------------------------------
(* Transactions *)

\* A transaction sees its own writes, and otherwise what is committed.
Sees(c, row) == IF row \in DOMAIN call[c].pend THEN call[c].pend[row] ELSE bal[row]

\* The number of the operation it is at.
NextOp(c) == Min(DOMAIN call[c].todo)

WithRow(pend, row, new) == [x \in DOMAIN pend \cup {row} |-> IF x = row THEN new ELSE pend[x]]

Without(todo, k) == Restrict(todo, DOMAIN todo \ {k})

\* The carried days are computed from the closing row of the year before.
Resolved(c, op) ==
  IF op.do # "carry" THEN op
  ELSE [op EXCEPT !.days =
          Min({Sees(c, <<op.row[1], op.row[2] - 1>>).balance, MaxCarry})]

TxRead(c) ==
  LET k  == NextOp(c)
      op == Resolved(c, call[c].todo[k])
  IN
  /\ call[c].at = "tx"
  /\ DOMAIN call[c].todo # {}
  /\ IF op.do = "carry" /\ op.days <= 0
     THEN Becomes(c, [call[c] EXCEPT !.todo = Without(@, k)])
     ELSE Becomes(c, [call[c] EXCEPT !.at = "write", !.snap = Sees(c, op.row),
                                     !.todo[k] = op])
  /\ UNCHANGED <<store, world>>

\* A refused update rolls the transaction back.
TxWrite(c) ==
  LET k   == NextOp(c)
      op  == call[c].todo[k]
      now == Sees(c, op.row)
  IN
  /\ call[c].at = "write"
  /\ \A d \in Actors \ {c} : op.row \notin DOMAIN call[d].pend
  /\ IF Refused(op, call[c].snap, now) THEN End(c)
     ELSE Becomes(c, [call[c] EXCEPT !.at = "tx", !.todo = Without(@, k), !.snap = NoRow,
            !.pend = WithRow(@, op.row, Updated(op, call[c].snap, now))])
  /\ UNCHANGED <<store, world>>

Flushed(c) == [row \in Rows |-> Sees(c, row)]

CommitRequest(c) ==
  LET r == call[c].of IN
  /\ call[c].at = "tx" /\ call[c].kind # "accrual"
  /\ DOMAIN call[c].todo = {}
  /\ status' = [status EXCEPT ![r] = call[c].kind]
  /\ bal' = Flushed(c)
  /\ taken' = IF call[c].kind = "APPROVED" THEN [taken EXCEPT ![r] = call[c].split] ELSE taken
  /\ End(c)
  /\ UNCHANGED <<log, world>>

\* Mutant: the run log is written without its unique index.
LogAgain(c) ==
  /\ call[c].at = "tx" /\ call[c].kind = "accrual"
  /\ DOMAIN call[c].todo = {}
  /\ log' = log \cup {call[c].of}
  /\ bal' = Flushed(c)
  /\ End(c)
  /\ UNCHANGED <<status, taken, world>>

\* The unique AccrualRunLog row is inserted last; a second run rolls back.
CommitAccrual(c) ==
  /\ call[c].at = "tx" /\ call[c].kind = "accrual"
  /\ DOMAIN call[c].todo = {}
  /\ IF call[c].of \in log THEN UNCHANGED <<log, bal>>
     ELSE log' = log \cup {call[c].of} /\ bal' = Flushed(c)
  /\ End(c)
  /\ UNCHANGED <<status, taken, world>>

Abort(c) ==
  /\ "abort" \in Faults
  /\ InFlight(c)
  /\ End(c)
  /\ UNCHANGED <<store, world>>

-------------------------------------------------------------------------------
(* The world *)

\* Every instance has fired on the first, and its run is over, long before the
\* next month.
NextMonth ==
  /\ period + 1 \in Periods
  /\ period = 0 \/ (fired = Crons /\ \A c \in Crons : ~InFlight(c))
  /\ period' = period + 1
  /\ fired' = {}
  /\ UNCHANGED <<store, moved, call>>

\* A holiday is added on a working day of the start year of r.
AddHoliday(r) ==
  /\ HolidayEdits
  /\ status[r] # "NONE" /\ r \notin moved
  /\ Days[r][StartYear(r)] > 1 /\ StartYear(r) + 1 \in Years
  /\ Days[r][StartYear(r) + 1] > 0
  /\ moved' = moved \cup {r}
  /\ UNCHANGED <<store, period, fired, call>>

Proceed(c) == \/ ApplyCount(c) \/ ApplyCreate(c)
              \/ LockRequest(c) \/ TxRead(c) \/ TxWrite(c)
              \/ CommitRequest(c) \/ CommitAccrual(c)

Next ==
  \/ \E c \in Actors : Proceed(c) \/ Abort(c)
  \/ \E c \in Calls, r \in Requests :
       \/ ApplyCheck(c, r) \/ ApproveCheck(c, r) \/ RejectCheck(c, r) \/ CancelCheck(c, r)
  \/ \E c \in Crons : AccrualStart(c)
  \/ NextMonth
  \/ \E r \in Requests : AddHoliday(r)

Spec == Init /\ [][Next]_vars

\* The process keeps running a call it has begun, and the cron jobs fire.
FairSpec == /\ Spec
            /\ \A c \in Actors : WF_vars(Proceed(c))
            /\ \A c \in Crons : WF_vars(AccrualStart(c))

-------------------------------------------------------------------------------
(* Properties of any interleaving *)

\* No balance row ever shows more days used than were credited to it, whatever
\* stale row an approval, cancellation or accrual wrote from (deductBalance).
NeverOverdrawn == \A row \in Rows : bal[row].used <= bal[row].cf + bal[row].entitled

\* The balance shown never exceeds what was credited to the row, even when two
\* cancellations of one request both give its days back (restoreBalance).
ShowsAtMostCredit == \A row \in Rows : bal[row].balance <= bal[row].cf + bal[row].entitled

\* However many instances fire the cron job, and however their runs overlap with
\* each other and with requests, each logged period is credited exactly once.
AccruedOncePerPeriod ==
  \A e \in Employees, y \in Years :
    bal[<<e, y>>].entitled = SumFunctionOnSet(Credit[e], {p \in log : YearOf[p] = y})

\* Calls take row locks in one order: none waits forever for another.
CallsEnd == \A c \in Actors : []<>~InFlight(c)

\* As long as no run fails, every month is credited.
MonthIsAccrued == \A p \in Periods : []<>(p <= period => p \in log)

-------------------------------------------------------------------------------
(* Properties that need calls not to overlap *)

ApprovedDays(e, y) ==
  SumFunctionOnSet([r \in Requests |-> taken[r][y]],
                   {r \in Requests : status[r] = "APPROVED" /\ Owner[r] = e})

\* The days used are those of the employee's approved requests: what approving
\* took from each year, cancelling gave back to it.
UsedMatchesApproved ==
  \A e \in Employees, y \in Years : bal[<<e, y>>].used = ApprovedDays(e, y)

\* The balance shown never promises days that are used.
BalanceIsCovered == \A row \in Rows : bal[row].balance <= Left(bal[row])

\* No more than TeamLimit requests of a department are active on one day.
TeamWithinCapacity ==
  \A S \in SUBSET Active :
    (\A r \in S : S \ {r} \subseteq Clash[r]) => Cardinality(S) <= TeamLimit

-------------------------------------------------------------------------------
(* What the repository's documents claim; see the findings                    *)

\* db_schema_reference.md:413: only "unused days" roll over to the next year.
CarriedDaysUnused ==
  \A e \in Employees, p \in Decembers :
    p \in log => bal[e, YearOf[p] + 1].cf <= Left(bal[e, YearOf[p]])
===============================================================================
