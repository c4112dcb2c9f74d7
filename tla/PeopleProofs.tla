----------------------------- MODULE PeopleProofs -----------------------------
(* The properties of People, for every value of its constants, from the        *)
(* inductive invariants of its parts.                                         *)
EXTENDS FiguresProofs, StaffProofs

-------------------------------------------------------------------------------
(* The composition                                                            *)

\* The part that runs keeps its own invariant.
PeopleInv ==
  /\ scope = "employees" => EmployInv
  /\ scope = "directory" => TreeInv
  /\ scope = "attendance" => HoursInv
  /\ scope = "salaries" => SalariesInv
  /\ scope = "payslips" => MathInv
  /\ scope = "onboarding" => OnboardInv
  /\ scope = "offboarding" => OffboardInv
  /\ scope = "interviews" => PanelInv
  /\ scope = "courses" => StudyInv
  /\ scope = "raises" => RaisesInv
  /\ scope = "equity" => VestInv
  /\ scope = "reviews" => ReviewInv
  /\ scope = "surveys" => SurveyInv
  /\ scope = "skills" => SkillInv

\* A step of the composition is a step, or a stutter, of the part that runs.
LEMMA PartSteps ==
  ASSUME [Next]_vars
  PROVE  /\ scope' = scope
         /\ scope = "employees" => [Employ!Next]_(Employ!vars)
         /\ scope = "directory" => [Tree!Next]_(Tree!vars)
         /\ scope = "attendance" => [Hours!Next]_(Hours!vars)
         /\ scope = "salaries" => [Salaries!Next]_(Salaries!vars)
         /\ scope = "payslips" => [Math!Next]_(Math!vars)
         /\ scope = "onboarding" => [Onboard!Next]_(Onboard!vars)
         /\ scope = "offboarding" => [Offboard!Next]_(Offboard!vars)
         /\ scope = "interviews" => [Panel!Next]_(Panel!vars)
         /\ scope = "courses" => [Study!Next]_(Study!vars)
         /\ scope = "raises" => [Raises!Next]_(Raises!vars)
         /\ scope = "equity" => [Vest!Next]_(Vest!vars)
         /\ scope = "reviews" => [Review!Next]_(Review!vars)
         /\ scope = "surveys" => [Survey!Next]_(Survey!vars)
         /\ scope = "skills" => [Skill!Next]_(Skill!vars)
<1>1. CASE Next
  BY <1>1 DEF Next
<1>2. CASE UNCHANGED vars
  <2>1. /\ scope' = scope /\ UNCHANGED shared
        /\ UNCHANGED employment /\ UNCHANGED departments /\ UNCHANGED hours
        /\ UNCHANGED salaries /\ UNCHANGED payslips /\ UNCHANGED onboarding
        /\ UNCHANGED offboarding /\ UNCHANGED interviews /\ UNCHANGED courses
        /\ UNCHANGED raises /\ UNCHANGED grants /\ UNCHANGED reviews
        /\ UNCHANGED surveys /\ UNCHANGED skills
    BY <1>2 DEF vars
  <2>2. UNCHANGED Employ!vars /\ UNCHANGED Tree!vars /\ UNCHANGED Hours!vars
    BY <2>1 DEF shared, employment, departments, hours, Employ!vars,
             Employ!rows, Employ!logs, Tree!vars, Hours!vars
  <2>3. UNCHANGED Salaries!vars /\ UNCHANGED Math!vars /\ UNCHANGED Onboard!vars
    BY <2>1 DEF shared, salaries, payslips, onboarding, Salaries!vars, Math!vars, Onboard!vars
  <2>4. UNCHANGED Offboard!vars /\ UNCHANGED Panel!vars /\ UNCHANGED Study!vars
    BY <2>1 DEF shared, offboarding, interviews, courses, Offboard!vars, Panel!vars, Study!vars
  <2>5. UNCHANGED Raises!vars /\ UNCHANGED Vest!vars /\ UNCHANGED Review!vars
    BY <2>1 DEF shared, raises, grants, reviews, Raises!vars, Vest!vars, Review!vars
  <2>6. UNCHANGED Survey!vars /\ UNCHANGED Skill!vars
    BY <2>1 DEF shared, surveys, skills, Survey!vars, Skill!vars
  <2> QED
    BY <2>1, <2>2, <2>3, <2>4, <2>5, <2>6
<1> QED
  BY <1>1, <1>2

\* The parts together: the invariant holds at the start.
LEMMA PeopleInit == Init => PeopleInv
BY EmployInit, TreeInit, HoursInit, SalariesInit, MathInit, OnboardInit,
   OffboardInit, PanelInit, StudyInit, RaisesInit, VestInit, ReviewInit,
   SurveyInit, SkillInit DEF Init, PeopleInv

\* The parts together: every step, and a stutter, keeps the invariant.
LEMMA PeopleNext == PeopleInv /\ [Next]_vars => PeopleInv'
BY PartSteps, EmployNext, TreeNext, HoursNext, SalariesNext, MathNext,
   OnboardNext, OffboardNext, PanelNext, StudyNext, RaisesNext, VestNext,
   ReviewNext, SurveyNext, SkillNext DEF PeopleInv

\* The invariants of all parts hold throughout.
LEMMA PeopleAlways == Spec => []PeopleInv
BY PeopleInit, PeopleNext, PTL DEF Spec

\* Whatever part runs, its tables, queues, jobs and calls keep their types.
THEOREM TypeCorrect == Spec => []TypeOK
<1>1. PeopleInv => TypeOK
  BY DEF PeopleInv, TypeOK, EmployInv, TreeInv, HoursInv, SalariesInv,
     MathInv, OnboardInv, OffboardInv, PanelInv, StudyInv, RaisesInv,
     VestInv, ReviewInv, SurveyInv, SkillInv
<1> QED
  BY <1>1, PeopleAlways, PTL

\* employees.service.ts, bulk-import.service.ts: however calls overlap or stop half-way,
\* the history of an employee whom update has not touched leads to the placement, the
\* status and the grade of his row, and an import counts its rows once.  If nothing
\* overlapped or stopped, every change has its audit row and its jobs.
THEOREM EmploymentStaysOnRecord == Spec => []EmploymentIsOnRecord
<1>1. PeopleInv => EmploymentIsOnRecord
  BY EmployOnRecord DEF PeopleInv, EmploymentIsOnRecord
<1> QED
  BY <1>1, PeopleAlways, PTL

\* org.service.ts: as long as no calls overlap, no move, deactivation or deletion
\* puts a department above itself, or under one that is gone.
THEOREM DepartmentsStayATree == Spec => []DepartmentsFormATree
<1>1. PeopleInv => DepartmentsFormATree
  BY TreeOfDepartments DEF PeopleInv, DepartmentsFormATree
<1> QED
  BY <1>1, PeopleAlways, PTL

\* attendance.service.ts and its nightly job: a past working day has one outcome, and
\* its minutes are those between its ends.
THEOREM AttendanceStaysSound == Spec => []AttendanceAddsUp
<1>1. PeopleInv => AttendanceAddsUp
  BY HoursAddUp DEF PeopleInv, AttendanceAddsUp
<1> QED
  BY <1>1, PeopleAlways, PTL

\* salary-structure.service.ts and employee-salary.service.ts: unless calls overlapped,
\* an employee has one open salary, of an active structure whose components are active,
\* and one salary that holds on a day.
THEOREM SalariesStaySound == Spec => []SalariesAreSound
<1>1. PeopleInv => SalariesAreSound
  BY SalariesSound DEF PeopleInv, SalariesAreSound
<1> QED
  BY <1>1, PeopleAlways, PTL

\* For every catalogue and every order of the structure: hasCycle of formula-validator.ts
\* reports exactly the catalogues with a component that needs itself; payroll-engine.ts
\* computes a payslip exactly if every formula names earlier components only, and then
\* each amount is what its definition gives, and earnings and deductions are all that
\* the employer does not contribute.
THEOREM PayslipsFollowDefinitions == Spec => []PayslipFollowsDefinition
<1>1. PeopleInv => PayslipFollowsDefinition
  BY PayslipSound DEF PeopleInv, PayslipFollowsDefinition
<1> QED
  BY <1>1, PeopleAlways, PTL

\* equity-grant.service.ts and vesting-cron.processor.ts, for every plan and however runs
\* overlap, fail or find several events: unless its cliff lies beyond its end, the events
\* of a grant have all its units; it never counts more than those of the processed
\* events, and is fully vested only when these are all.  As long as no run overlapped
\* another or found two events, it counts exactly those.
THEOREM UnitsVest == Spec => []UnitsVestAsScheduled
<1>1. PeopleInv => UnitsVestAsScheduled
  BY VestScheduled DEF PeopleInv, UnitsVestAsScheduled
<1> QED
  BY <1>1, PeopleAlways, PTL

\* On- and offboardings, interviews, courses, compensation cycles, reviews, surveys and
\* certifications: what is said to be done has everything done that the code asks for,
\* which for an exit that nobody approved is the interview alone.
THEOREM DoneStaysDone == Spec => []DoneMeansAllDone
<1>1. PeopleInv => DoneMeansAllDone
  BY OnboardDone, OffboardDoneMeans, PanelDone, StudyDone, RaisesDone, ReviewDone,
     SurveyDone, SkillDone
     DEF PeopleInv, DoneMeansAllDone
<1> QED
  BY <1>1, PeopleAlways, PTL
===============================================================================
