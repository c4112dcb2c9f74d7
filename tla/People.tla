--------------------------------- MODULE People ---------------------------------
(* Parts that keep the affairs of employees: employment, departments, hours,  *)
(* salaries and how payroll computes them, on- and offboarding, interviews,   *)
(* courses, reviews, surveys, skills and equity.                              *)
(*                                                                            *)
(* The parts write no row in common, so their interleavings would show        *)
(* nothing more: scope picks one part, and a behaviour is one of that part.   *)
(* Parts that name a variable alike share it, and what a part does not have   *)
(* stays 0.                                                                   *)
EXTENDS Integers, Sequences, FiniteSets

CONSTANTS
  Calls, Faults,
  Employees, MaxNumber, File, MaxEvents,                       \* Employees, Surveys
  Few,         \* bound: the employees whom calls that overlap or stop half-way concern
  Departments, Records,                                        \* Directory
  HourCalls, LastDay, DaysOff, EndOfDay, ShiftStart, HalfDay, Correctable, \* Attendance
  Components, Structures, MaxSalaries,                         \* SalarySetup
  Codes, BASIC, Deductions, EmployerContributions, Value, Percent, Owns, \* PayrollMath
  Month, Weekend, Holidays,
  Tasks,                                                       \* Onboarding
  Template, MaxCopies,                                         \* Offboarding
  Panelists,                                                   \* Interviews
  Courses, Percents,                                           \* Learning
  Allocations, Amounts, totalBudget,                           \* Compensation
  Plans,                                                       \* Equity
  Sections, Pips,                                              \* Reviews
  MaxQuestions, MaxAnswers, minN,                                    \* Surveys
  Levels, threshold                                            \* Skills

\* Finitely many calls and things that they are about, amounts and days that are
\* natural numbers, and names that stand for nothing and so are nobody's.
ASSUME PeopleAssumption ==
  /\ IsFiniteSet(Calls)
  /\ IsFiniteSet(Employees) /\ "nobody" \notin Employees /\ "no one" \notin Employees
  /\ MaxNumber \in Nat /\ File \in Seq(0..MaxNumber)
  /\ IsFiniteSet(Departments) /\ "nothing" \notin Departments
  /\ LastDay \in Nat \ {0} /\ EndOfDay \in Nat \ {0} /\ ShiftStart \in Int
  /\ HalfDay \in Int /\ Correctable \subseteq {"PRESENT", "LATE", "HALF_DAY"}
  /\ MaxSalaries \in Nat
  /\ IsFiniteSet(Codes) /\ BASIC \in Codes /\ Deductions \cap EmployerContributions = {}
  /\ Value \in Nat /\ Percent \in Nat
  /\ Owns \subseteq Nat /\ IsFiniteSet(Month)
  /\ MaxCopies \in Nat /\ IsFiniteSet(Panelists)
  /\ IsFiniteSet(Courses) /\ Percents \subseteq Nat
  /\ IsFiniteSet(Allocations) /\ Amounts \subseteq Nat
  /\ IsFiniteSet(Plans) /\ Plans \subseteq [units : Nat, cliff : Nat, periods : Nat \ {0}]
  /\ MaxQuestions \in Nat /\ MaxAnswers \in Nat /\ minN \in Nat

VARIABLES
  scope,                                   \* the part that runs
  call, overlap, disturbed, aborted, status, task, announced, order, today, cycle,
  emp, history, grades, audited, queued, job, patched,
  dept, parent, owner, record,
  clock, log, partial,
  component, structure, salary, inCycle, backdated, unvalidated,
  catalogue, days, twice, own, amount, phase,
  template,
  copies, interview, events,
  stage, panel, lead, cards, changed,
  enrolled, behind, lost,
  alloc, bonus,
  grant, vesting, run, bunched,
  review, response, pip, late,
  questions, assigned, sheets, answers,
  skill, cert, sweep

Employ   == INSTANCE Employees
Tree     == INSTANCE Directory
Hours    == INSTANCE Attendance WITH Calls <- HourCalls
Salaries == INSTANCE SalarySetup
Math     == INSTANCE PayrollMath
Onboard  == INSTANCE Onboarding
Offboard == INSTANCE Offboarding
Panel    == INSTANCE Interviews
Study    == INSTANCE Learning
Raises   == INSTANCE Compensation
Vest     == INSTANCE Equity
Review   == INSTANCE Reviews
Survey   == INSTANCE Surveys
Skill    == INSTANCE Skills

shared      == <<call, overlap, disturbed, aborted, status, task, announced, order,
                  today, cycle>>
employment  == <<emp, history, grades, audited, queued, job, patched>>
departments == <<dept, parent, owner, record>>
hours       == <<clock, log, partial>>
salaries    == <<component, structure, salary, inCycle, backdated, unvalidated>>
payslips    == <<catalogue, days, twice, own, amount, phase>>
onboarding  == <<template>>
offboarding == <<copies, interview, events>>
interviews  == <<stage, panel, lead, cards, changed>>
courses     == <<enrolled, behind, lost>>
raises      == <<alloc, bonus>>
grants      == <<grant, vesting, run, bunched>>
reviews     == <<review, response, pip, late>>
surveys     == <<questions, assigned, sheets, answers>>
skills      == <<skill, cert, sweep>>

vars ==
  <<scope, shared, employment, departments, hours, salaries, payslips, onboarding,
    offboarding, interviews, courses, raises, grants, reviews, surveys, skills>>

\* The variables of the parts that do not run.
Nothing ==
  /\ scope # "employees" =>
       /\ emp = 0 /\ history = 0 /\ grades = 0 /\ audited = 0 /\ queued = 0 /\ job = 0
       /\ patched = 0
  /\ scope # "directory" => dept = 0 /\ parent = 0 /\ owner = 0 /\ record = 0
  /\ scope # "attendance" => clock = 0 /\ log = 0 /\ partial = 0
  /\ scope # "salaries" =>
       /\ component = 0 /\ structure = 0 /\ salary = 0 /\ inCycle = 0
       /\ backdated = 0 /\ unvalidated = 0
  /\ scope # "payslips" =>
       catalogue = 0 /\ days = 0 /\ twice = 0 /\ own = 0 /\ amount = 0 /\ phase = 0
  /\ scope # "onboarding" => template = 0
  /\ scope # "offboarding" => copies = 0 /\ interview = 0 /\ events = 0
  /\ scope # "interviews" => stage = 0 /\ panel = 0 /\ lead = 0 /\ cards = 0 /\ changed = 0
  /\ scope # "courses" => enrolled = 0 /\ behind = 0 /\ lost = 0
  /\ scope # "raises" => alloc = 0 /\ bonus = 0
  /\ scope # "equity" => grant = 0 /\ vesting = 0 /\ run = 0 /\ bunched = 0
  /\ scope # "reviews" => review = 0 /\ response = 0 /\ pip = 0 /\ late = 0
  /\ scope # "surveys" => questions = 0 /\ assigned = 0 /\ sheets = 0 /\ answers = 0
  /\ scope # "skills" => skill = 0 /\ cert = 0 /\ sweep = 0
  /\ scope \in {"payslips", "equity"} => call = 0
  /\ scope \in {"employees", "directory", "attendance", "payslips", "offboarding"} => overlap = 0
  /\ scope \notin {"employees", "directory", "attendance", "offboarding"} => disturbed = 0
  /\ scope \notin {"onboarding", "interviews"} => aborted = 0
  /\ scope \notin {"onboarding", "offboarding", "interviews", "surveys"} => status = 0
  /\ scope \notin {"onboarding", "offboarding"} => task = 0
  /\ scope \notin {"onboarding", "courses"} => announced = 0
  /\ scope \notin {"payslips", "courses"} => order = 0
  /\ scope \notin {"attendance", "equity"} => today = 0
  /\ scope \notin {"raises", "reviews"} => cycle = 0

Init ==
  /\ \/ scope = "employees" /\ Employ!Init
     \/ scope = "directory" /\ Tree!Init
     \/ scope = "attendance" /\ Hours!Init
     \/ scope = "salaries" /\ Salaries!Init
     \/ scope = "payslips" /\ Math!Init
     \/ scope = "onboarding" /\ Onboard!Init
     \/ scope = "offboarding" /\ Offboard!Init
     \/ scope = "interviews" /\ Panel!Init
     \/ scope = "courses" /\ Study!Init
     \/ scope = "raises" /\ Raises!Init
     \/ scope = "equity" /\ Vest!Init
     \/ scope = "reviews" /\ Review!Init
     \/ scope = "surveys" /\ Survey!Init
     \/ scope = "skills" /\ Skill!Init
  /\ Nothing

Others ==
  /\ scope # "employees" => UNCHANGED employment
  /\ scope # "directory" => UNCHANGED departments
  /\ scope # "attendance" => UNCHANGED hours
  /\ scope # "salaries" => UNCHANGED salaries
  /\ scope # "payslips" => UNCHANGED payslips
  /\ scope # "onboarding" => UNCHANGED onboarding
  /\ scope # "offboarding" => UNCHANGED offboarding
  /\ scope # "interviews" => UNCHANGED interviews
  /\ scope # "courses" => UNCHANGED courses
  /\ scope # "raises" => UNCHANGED raises
  /\ scope # "equity" => UNCHANGED grants
  /\ scope # "reviews" => UNCHANGED reviews
  /\ scope # "surveys" => UNCHANGED surveys
  /\ scope # "skills" => UNCHANGED skills
  /\ scope \in {"payslips", "equity"} => UNCHANGED call
  /\ scope \in {"employees", "directory", "attendance", "payslips", "offboarding"} =>
       UNCHANGED overlap
  /\ scope \notin {"employees", "directory", "attendance", "offboarding"} =>
       UNCHANGED disturbed
  /\ scope \notin {"onboarding", "interviews"} => UNCHANGED aborted
  /\ scope \notin {"onboarding", "offboarding", "interviews", "surveys"} => UNCHANGED status
  /\ scope \notin {"onboarding", "offboarding"} => UNCHANGED task
  /\ scope \notin {"onboarding", "courses"} => UNCHANGED announced
  /\ scope \notin {"payslips", "courses"} => UNCHANGED order
  /\ scope \notin {"attendance", "equity"} => UNCHANGED today
  /\ scope \notin {"raises", "reviews"} => UNCHANGED cycle

\* Bound: of an employee who is not one of Few, only the hire is in the history, and
\* calls overlap or stop half-way in the absence of such employees.
Bound ==
  \A e \in Employees \ Few :
    /\ Len(history'[e]) <= 1
    /\ disturbed' => emp'[e] = Employ!Absent /\ \A c \in Calls : call'[c].emp # e

Next ==
  /\ \/ scope = "employees" /\ Employ!Next /\ Bound
     \/ scope = "directory" /\ Tree!Next
     \/ scope = "attendance" /\ Hours!Next
     \/ scope = "salaries" /\ Salaries!Next
     \/ scope = "payslips" /\ Math!Next
     \/ scope = "onboarding" /\ Onboard!Next
     \/ scope = "offboarding" /\ Offboard!Next
     \/ scope = "interviews" /\ Panel!Next
     \/ scope = "courses" /\ Study!Next
     \/ scope = "raises" /\ Raises!Next
     \/ scope = "equity" /\ Vest!Next
     \/ scope = "reviews" /\ Review!Next
     \/ scope = "surveys" /\ Survey!Next
     \/ scope = "skills" /\ Skill!Next
  /\ UNCHANGED scope /\ Others

Spec == Init /\ [][Next]_vars

-------------------------------------------------------------------------------
TypeOK ==
  /\ scope = "employees" => Employ!TypeOK
  /\ scope = "directory" => Tree!TypeOK
  /\ scope = "attendance" => Hours!TypeOK
  /\ scope = "salaries" => Salaries!TypeOK
  /\ scope = "payslips" => Math!TypeOK
  /\ scope = "onboarding" => Onboard!TypeOK
  /\ scope = "offboarding" => Offboard!TypeOK
  /\ scope = "interviews" => Panel!TypeOK
  /\ scope = "courses" => Study!TypeOK
  /\ scope = "raises" => Raises!TypeOK
  /\ scope = "equity" => Vest!TypeOK
  /\ scope = "reviews" => Review!TypeOK
  /\ scope = "surveys" => Survey!TypeOK
  /\ scope = "skills" => Skill!TypeOK

\* History and import totals tell what happened to the employees, whatever overlaps or
\* fails, and audit rows and jobs do if nothing does.
EmploymentIsOnRecord == scope = "employees" => Employ!EmploymentIsOnRecord

\* As long as no calls overlap, no department is above itself.
DepartmentsFormATree == scope = "directory" => Tree!DepartmentsFormATree

\* A past working day is absent, a missing punch or clocked out, with the minutes
\* between its ends, unless calls overlapped or one end was corrected.
AttendanceAddsUp == scope = "attendance" => Hours!AttendanceAddsUp

\* Unless calls overlapped: one open salary, of an active structure with active
\* components, and one current salary a day.
SalariesAreSound == scope = "salaries" => Salaries!SalariesAreSound

\* A payslip has the amounts that the definitions of its components give, and is
\* computed exactly if every formula names earlier components only.
PayslipFollowsDefinition == scope = "payslips" => Math!PayslipFollowsDefinition

\* A grant counts no more units than its processed events have, however runs overlap,
\* and all of them if no run overlapped another or met two events at once.
UnitsVestAsScheduled == scope = "equity" => Vest!UnitsVestAsScheduled

\* What is said to be done has everything done that the code asks for, and is not done
\* or announced twice; each part says what of it holds if calls overlap.
DoneMeansAllDone ==
  /\ scope = "onboarding" => Onboard!DoneMeansAllDone
  /\ scope = "offboarding" => Offboard!DoneMeansAllDone
  /\ scope = "interviews" => Panel!DoneMeansAllDone
  /\ scope = "courses" => Study!DoneMeansAllDone
  /\ scope = "raises" => Raises!DoneMeansAllDone
  /\ scope = "reviews" => Review!DoneMeansAllDone
  /\ scope = "surveys" => Survey!DoneMeansAllDone
  /\ scope = "skills" => Skill!DoneMeansAllDone
===============================================================================
