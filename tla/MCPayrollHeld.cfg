SPECIFICATION Spec
CONSTANTS
  e1 = e1  e2 = e2
  q1 = q1  q2 = q2  q3 = q3  q4 = q4  q5 = q5
  Employees <- TwoEmployees
  Requests <- FourCalls
  SerialRequests = TRUE
  SingleRunWorker = TRUE
  Faults <- NoFaults
SYMMETRY Symmetry
PROPERTIES HeldEntriesStored
CHECK_DEADLOCK FALSE
