SPECIFICATION Spec
CONSTANTS
  a1 = a1  a2 = a2  a3 = a3
  c1 = c1  c2 = c2
  Applications <- ThreeApplications
  Calls <- TwoCalls
  Expires <- OneApplication
  Headcount = 1
  MaxFilled = 2
  MaxJobs = 1
  Faults <- Aborts
INVARIANTS TypeOK HiredWasOffered HiredWithinFilled HiresAgree FullIsClosed
PROPERTIES ImplementsPipeline
CONSTRAINT ExpiringIsAlone
SYMMETRY Symmetry
CHECK_DEADLOCK FALSE
