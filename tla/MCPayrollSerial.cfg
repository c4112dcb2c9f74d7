SPECIFICATION Spec
CONSTANTS
  e1 = e1  e2 = e2
  q1 = q1  q2 = q2  q3 = q3  q4 = q4  q5 = q5
  Employees <- TwoEmployees
  Requests <- FiveCalls
  SerialRequests = TRUE
  SingleRunWorker = TRUE
  Faults <- SerialFaults
SYMMETRY Symmetry
INVARIANTS SecondPayslipNeedsRedelivery CycleEntriesAgree
PROPERTIES ImplementsLifecycle
CHECK_DEADLOCK FALSE
