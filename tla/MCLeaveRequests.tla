---------------------------- MODULE MCLeaveRequests ---------------------------
(* Instances of LeaveRequests for TLC.                                        *)
EXTENDS LeaveRequests, TLC

CONSTANTS e1, r1, r2, r3, q1, q2, q3, q4, i1, i2

OneEmployee == {e1}
TwoCalls    == {q1, q2}
ThreeCalls  == {q1, q2, q3}
FourCalls   == {q1, q2, q3, q4}
OneCron     == {i1}
TwoCrons    == {i1, i2}

TwoRequests   == {r1, r2}
ThreeRequests == {r1, r2, r3}
NoRequests    == {}

OwnedByE1 == [r \in Requests |-> e1]

\* r1 lies in year 1, r2 goes over new year, r3 lies in year 2.
DaysOf == [r \in Requests |->
  CASE r = r1 -> <<1, 0>> [] r = r2 -> <<2, 1>> [] r = r3 -> <<0, 1>>]
AllClash == [r \in Requests |-> Requests \ {r}]

TwoYears == {1, 2}
\* December of year 1 and January of year 2.
TwoPeriods   == {1, 2}
YearOfTwo    == <<1, 2>>
DecemberIsOne == {1}
OneDayAMonth == [e \in Employees |-> [p \in Periods |-> 1]]

Symmetry == Permutations(Calls) \cup Permutations(Crons)

NoFaults    == {}
Aborts      == {"abort"}
===============================================================================
