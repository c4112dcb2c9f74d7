SPECIFICATION Spec
CONSTANTS
  u1 = u1  r1 = r1  admin = admin  read = read  write = write  t1 = t1  t2 = t2
  i1 = i1  p1 = p1  d1 = d1  s1 = s1  s2 = s2  e1 = e1  e2 = e2  j1 = j1
  j2 = j2  k1 = k1  k2 = k2  q1 = q1  q2 = q2  c1 = c1  c2 = c2
  AccountCalls <- OneCall  Calls <- TwoCalls  Faults <- AnyFault
  Tokens <- TwoTokens  Invites <- OneInvite  Resets <- OneReset
  MaxChanges = 2  MaxGuesses = 2
  Users <- OneUser  Roles <- TwoRoles  SystemRoles <- OnlyAdmin  Permits <- ReadAndWrite
  Documents <- OneDocument  Requests <- TwoRequests
  Employees <- OneEmployee  MaxVersion = 3
  Events <- TwoEvents  Threshold = 2  MaxReports = 4
  Jobs <- TwoJobs  Attempts = 2  Ticks <- TwoTicks
  Requisitions <- TwoRequisitions
INVARIANTS TypeOK RecordsAreBacked AcknowledgedStands RevokedStayOut CacheIsCurrent DeliveredOnce
PROPERTIES AnswerIsFinal
CONSTRAINT Disturbance
SYMMETRY Symmetry
CHECK_DEADLOCK FALSE
