SPECIFICATION Spec
CONSTANTS
  e1 = e1
  r1 = r1  r2 = r2  r3 = r3
  q1 = q1  q2 = q2  q3 = q3  q4 = q4
  i1 = i1  i2 = i2
  Calls <- ThreeCalls
  Crons <- TwoCrons
  Requests <- TwoRequests
  Employees <- OneEmployee
  Owner <- OwnedByE1
  Days <- DaysOf
  Clash <- AllClash
  Applied <- TwoRequests
  Opening = 2
  Years <- TwoYears
  Periods <- TwoPeriods
  YearOf <- YearOfTwo
  Decembers <- DecemberIsOne
  Credit <- OneDayAMonth
  MaxBalance = 0
  MaxCarry = 1
  TeamLimit = 2
  SerialCalls = FALSE
  HolidayEdits = TRUE
  Faults <- Aborts
SYMMETRY Symmetry
INVARIANTS TypeOK NeverOverdrawn ShowsAtMostCredit AccruedOncePerPeriod
CHECK_DEADLOCK FALSE
