SPECIFICATION Spec
CONSTANTS
  e1 = e1  e2 = e2  d1 = d1  d2 = d2  d3 = d3  r1 = r1  k1 = k1  k2 = k2
  k3 = k3  s1 = s1  s2 = s2  s3 = s3  p1 = p1  p2 = p2  c1 = c1  c2 = c2
  Calls <- TwoCalls  Faults <- AnyFault
  Employees <- TwoEmployees  MaxNumber = 2  File <- ThreeRows  MaxEvents = 3  Few <- OneEmployee
  Departments <- ThreeDepartments  Records <- OneRecord
  HourCalls <- OneCall  LastDay = 2  DaysOff <- NoDaysOff  EndOfDay = 2  ShiftStart = 1
  HalfDay = 1  Correctable <- Present
  Components <- OneComponent  Structures <- TwoStructures  MaxSalaries = 2
  Codes <- ThreeCodes  BASIC = k1  Deductions <- OneDeduction  EmployerContributions <- OneContribution  Value = 101  Percent = 50
  Owns <- NoneOrForty  Month <- TwoDays  Weekend <- DayTwo  Holidays <- NoDaysOff
  Tasks <- TwoTasks  Template <- TwoTasks  MaxCopies = 2  Panelists <- TwoPeople
  Courses <- TwoTasks  Percents <- HalfAndWhole
  Allocations <- TwoEmployees  Amounts <- OnlyTwo  totalBudget = 3
  Plans <- ThreePlans  Sections <- OneSection  Pips <- TwoPeople
  MaxQuestions = 1  MaxAnswers = 2  minN = 2  Levels <- ThreeLevels  threshold = 2
INVARIANTS TypeOK EmploymentIsOnRecord DepartmentsFormATree AttendanceAddsUp SalariesAreSound PayslipFollowsDefinition UnitsVestAsScheduled DoneMeansAllDone
CONSTRAINT Disturbance
SYMMETRY Symmetry
CHECK_DEADLOCK FALSE
