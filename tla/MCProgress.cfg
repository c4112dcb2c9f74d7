SPECIFICATION FairSpec
CONSTANTS
  e1 = e1  q1 = q1  q2 = q2  q3 = q3  q4 = q4  q5 = q5  r1 = r1  r2 = r2  i1 = i1  i2 = i2  a1 = a1  c1 = c1  c2 = c2  d1 = d1
PROPERTIES ProcessingEnds DisbursedGetsPayslip CallsEnd MonthIsAccrued ExpiryJobWorks StaleIsResolved
CHECK_DEADLOCK FALSE
